---- MODULE Spec2Model ----
(***************************************************************************)
(* A model of the febft replication engine: the windowed Consensus         *)
(* multiplexer (febft-pbft-consensus/src/bft/consensus/mod.rs), the        *)
(* single-instance Consensus with its TBOQueue                             *)
(* (src/bft/consensus/mod.rs), and the view-change Synchronizer            *)
(* (febft-pbft-consensus/src/bft/sync/mod.rs).                             *)
(***************************************************************************)
EXTENDS Integers, Sequences, FiniteSets, TLC

(***************************************************************************)
(* Bounds of the model and the small sets the inputs are drawn from.       *)
(***************************************************************************)
\* Consensus.finalize is not called once seq_no has reached MaxSeq.
MaxSeq == 2
\* At most MaxBuf consensus messages are buffered in one Consensus.
MaxBuf == 1

\* The quorum members of the view, in order (ViewInfo.quorum_members).
Members == <<0, 1, 2, 3>>
Nodes == {Members[i] : i \in 1..Len(Members)}
Digests == {"D1", "D2"}
\* The batch digest the peers of the windowed Consensus vote for.
ConsDigests == {"D1"}
Watermarks == {1, 2}
Kinds == {"PrePrepare", "Prepare", "Commit"}
NoDigest == "none"
\* The views of the messages, and the view the replicas are in.
Views == {0}
CurrentView == CHOOSE v \in Views : TRUE
\* At most MaxQueued messages wait in the TBOQueue of a single-instance Consensus.
MaxQueued == 2
\* The single-instance Consensus is sent messages of the sequence numbers up to MaxOldSeq.
MaxOldSeq == 1
\* The Synchronizer changes view up to view MaxView.
MaxView == 1
\* At most MaxSyncBuf messages wait in the tbo queue of the Synchronizer.
MaxSyncBuf == 1
\* The last proofs of the STOP-DATA are of the instances up to MaxProofSeq.
MaxProofSeq == 1
\* The Synchronizer broadcasts at most MaxStops STOP messages.
MaxStops == 1
\* The timestamps of the STOP-DATA are the views up to MaxTs.
MaxTs == 1
\* The state transfer issues requests up to the sequence number MaxCstSeq.
MaxCstSeq == 5
\* The checkpoints are of the sequence numbers up to MaxCid.
MaxCid == 2
\* At most MaxReplies replies are counted in one phase of the state transfer.
MaxReplies == 4
\* The requests of the state of the other replicas are of the sequence numbers
\* up to MaxRequestSeq.
MaxRequestSeq == 2
\* The Synchronizer that is handed join requests changes view up to view MaxJoinView.
MaxJoinView == 2
\* At most MaxJoinBuf messages wait in its tbo queue.
MaxJoinBuf == 1

VARIABLES
    cons,       \* the windowed Consensus: node_id, watermark, seq_no, decisions, tbo_queue
    finalized,  \* the CompletedBatches Consensus.finalize has returned, in order
    old,        \* the single-instance Consensus: phase, tbo, current
    old_voted,  \* history: the senders of the votes it has counted, by kind
    sync,       \* the Synchronizer: node_id, phase, tbo, stopped, collects, finalize_state
    view_changes, \* history: the FinalizeState of each view change it has finalized
    stops_sent, \* history: the number of STOP messages it has broadcast
    joins_seen, \* history: the STOP-QUORUM-JOIN it has counted: view, candidate, sender
    joins_sent, \* history: the STOP-QUORUM-JOIN it has broadcast: view, candidate
    replicas,   \* the single-instance Consensus of each of the four replicas
    net,        \* the consensus messages sent and not yet received
    crashed,    \* the replica that is crashed, or NoNode
    tboq,       \* a TBOQueue on its own
    queued,     \* history: by kind and sequence number, the messages queued in it and not popped
    collected,  \* the STOP-DATA collects the predicates of the view change are applied to
    answered,   \* what the predicate applied last has answered
    cst,        \* the CollabStateTransfer of a replica
    st_result,  \* history: the STResult of its last call, or NoResult
    agreed_seq, \* history: the sequence number its last discovery phase has answered
    replies_seen, \* history: the states of the ReplyState of its request of the state
    backoff,    \* history: the timeouts of its requests since replies enough were there
    buffered    \* history: the RequestState that found no checkpoint, until one is finalized

cons_vars == <<cons, finalized>>
old_vars == <<old, old_voted>>
sync_vars == <<sync, view_changes, stops_sent, joins_seen, joins_sent>>
sys_vars == <<replicas, net, crashed>>
tbo_vars == <<tboq, queued>>
snd_vars == <<collected, answered>>
cst_vars == <<cst, st_result, agreed_seq, replies_seen, backoff, buffered>>
vars == <<cons, finalized, old, old_voted, sync, view_changes, stops_sent, joins_seen, joins_sent,
          replicas, net, crashed, tboq, queued, collected, answered, cst, st_result, agreed_seq,
          replies_seen, backoff, buffered>>

(***************************************************************************)
(* View parameters.                                                        *)
(***************************************************************************)
ViewN == Len(Members)
ViewF == (ViewN - 1) \div 3
ViewQuorum == 2 * ViewF + 1
\* leader = members[seq mod members.len()]
ViewLeader(v) == Members[(v % ViewN) + 1]

\* ViewInfo of a membership other than Members: f, quorum and leader.
view_f(members) == (Len(members) - 1) \div 3
view_quorum(members) == 2 * view_f(members) + 1
view_leader(seq, members) == members[(seq % Len(members)) + 1]
\* ViewInfo::next_view_with_new_node: the members of the next view.
next_view_with_new_node(members, node) == Append(members, node)

(***************************************************************************)
(* Ordering primitives.                                                    *)
(***************************************************************************)
\* SeqNo::index: Right(offset) when the offset is not negative, else Left.
SeqIndex(s, base) ==
    IF s - base < 0 THEN [left |-> TRUE, i |-> 0] ELSE [left |-> FALSE, i |-> s - base]

SeqNext(s) == s + 1

RECURSIVE Extend(_, _)
\* tbo.extend(repeat_with(VecDeque::new).take(len))
Extend(tbo, len) == IF len <= 0 THEN tbo ELSE Extend(Append(tbo, <<>>), len - 1)

\* tbo_queue_message(base, tbo, m): drop when m is behind base, else grow the
\* deque of buckets up to the offset and push m at the back of its bucket.
tbo_queue_message(base, tbo, m) ==
    LET ix == SeqIndex(m.seq, base) IN
    IF ix.left THEN tbo
    ELSE LET index == ix.i + 1
             grown == IF index > Len(tbo) THEN Extend(tbo, index - Len(tbo)) ELSE tbo
         IN [grown EXCEPT ![index] = Append(@, m)]

\* tbo_advance_message_queue_return(tbo): pop the front bucket and return it.
tbo_advance_message_queue_return(tbo) ==
    IF Len(tbo) = 0 THEN [some |-> FALSE, bucket |-> <<>>, tbo |-> tbo]
    ELSE [some |-> TRUE, bucket |-> Head(tbo), tbo |-> Tail(tbo)]

RECURSIVE SumLen(_)
SumLen(tbo) == IF Len(tbo) = 0 THEN 0 ELSE Len(Head(tbo)) + SumLen(Tail(tbo))

(***************************************************************************)
(* ConsensusDecision: one three-phase agreement instance with its          *)
(* MessageQueue.                                                           *)
(***************************************************************************)
MessageQueue_from_messages(pre_prepares, prepares, commits) ==
    [pre_prepares |-> pre_prepares, prepares |-> prepares, commits |-> commits]

init_with_msg_log(node_id, seq, view, queue) ==
    [node_id |-> node_id, seq |-> seq, view |-> view, phase |-> "Init",
     batch_digest |-> NoDigest, prepare_voters |-> {}, commit_voters |-> {},
     message_queue |-> queue]

init_decision(node_id, seq, view) ==
    init_with_msg_log(node_id, seq, view, MessageQueue_from_messages(<<>>, <<>>, <<>>))

\* MessageQueue::queue_message: push m at the back of the queue of its kind.
queue_message_in(queue, m) ==
    CASE m.kind = "PrePrepare" -> [queue EXCEPT !.pre_prepares = Append(@, m)]
      [] m.kind = "Prepare" -> [queue EXCEPT !.prepares = Append(@, m)]
      [] OTHER -> [queue EXCEPT !.commits = Append(@, m)]

decision_queue(d, m) == [d EXCEPT !.message_queue = queue_message_in(@, m)]

\* ConsensusDecision::poll: the next buffered message of the kind the phase consumes.
decision_poll(d) ==
    LET q == d.message_queue IN
    CASE d.phase = "Init" /\ Len(q.pre_prepares) > 0 ->
           [status |-> "NextMessage", msg |-> Head(q.pre_prepares),
            d |-> [d EXCEPT !.message_queue.pre_prepares = Tail(@)]]
      [] d.phase = "Preparing" /\ Len(q.prepares) > 0 ->
           [status |-> "NextMessage", msg |-> Head(q.prepares),
            d |-> [d EXCEPT !.message_queue.prepares = Tail(@)]]
      [] d.phase = "Committing" /\ Len(q.commits) > 0 ->
           [status |-> "NextMessage", msg |-> Head(q.commits),
            d |-> [d EXCEPT !.message_queue.commits = Tail(@)]]
      [] d.phase = "Decided" -> [status |-> "Decided", msg |-> <<>>, d |-> d]
      [] OTHER -> [status |-> "Recv", msg |-> <<>>, d |-> d]

Deciding(d) == [status |-> "Deciding", node |-> -1, d |-> d]

\* ConsensusDecision::process_message: the three-phase state machine.
decision_process_message(d, m) ==
    IF m.seq # d.seq \/ m.view # d.view THEN Deciding(decision_queue(d, m))
    ELSE CASE d.phase = "Init" ->
                IF m.kind # "PrePrepare" THEN Deciding(decision_queue(d, m))
                ELSE IF m.from # ViewLeader(d.view) THEN Deciding(d)
                ELSE Deciding([d EXCEPT !.phase = "Preparing",
                                        !.batch_digest = m.digest,
                                        !.prepare_voters = {d.node_id}])
           [] d.phase = "Preparing" ->
                IF m.kind = "Commit" THEN Deciding(decision_queue(d, m))
                ELSE IF m.kind = "PrePrepare" \/ m.digest # d.batch_digest THEN Deciding(d)
                ELSE IF m.from \in d.prepare_voters
                THEN [status |-> "VotedTwice", node |-> m.from, d |-> d]
                ELSE LET voters == d.prepare_voters \cup {m.from} IN
                     IF Cardinality(voters) >= ViewQuorum
                     THEN Deciding([d EXCEPT !.phase = "Committing",
                                             !.prepare_voters = voters,
                                             !.commit_voters = {d.node_id}])
                     ELSE Deciding([d EXCEPT !.prepare_voters = voters])
           [] d.phase = "Committing" ->
                IF m.kind # "Commit" \/ m.digest # d.batch_digest THEN Deciding(d)
                ELSE IF m.from \in d.commit_voters
                THEN [status |-> "VotedTwice", node |-> m.from, d |-> d]
                ELSE LET voters == d.commit_voters \cup {m.from} IN
                     IF Cardinality(voters) >= ViewQuorum
                     THEN [status |-> "Decided", node |-> -1,
                           d |-> [d EXCEPT !.phase = "Decided", !.commit_voters = voters]]
                     ELSE Deciding([d EXCEPT !.commit_voters = voters])
           [] OTHER -> Deciding(d)

is_finalizeable(d) == d.phase = "Decided"

\* ConsensusDecision::finalize: the CompletedBatch of a decided instance.
decision_finalize(d) == [seq |-> d.seq, batch_digest |-> d.batch_digest]

(***************************************************************************)
(* TboQueue of the windowed Consensus: the messages of the sequence        *)
(* numbers beyond seq_no + watermark.                                      *)
(***************************************************************************)
TboQueue_new(curr_seq, watermark) ==
    [curr_seq |-> curr_seq, watermark |-> watermark, get_queue |-> FALSE,
     pre_prepares |-> <<>>, prepares |-> <<>>, commits |-> <<>>]

base_seq(tbo) == tbo.curr_seq + tbo.watermark

\* TboQueue::advance_queue: the MessageQueue of the front buckets, which are popped.
advance_queue(tbo) ==
    LET pp == tbo_advance_message_queue_return(tbo.pre_prepares)
        p == tbo_advance_message_queue_return(tbo.prepares)
        c == tbo_advance_message_queue_return(tbo.commits)
    IN [queue |-> MessageQueue_from_messages(pp.bucket, p.bucket, c.bucket),
        tbo |-> [tbo EXCEPT !.curr_seq = SeqNext(tbo.curr_seq),
                            !.pre_prepares = pp.tbo,
                            !.prepares = p.tbo,
                            !.commits = c.tbo]]

\* TboQueue::queue: by kind, into the bucket of the message's offset from base_seq.
tbo_queue(tbo, m) ==
    CASE m.kind = "PrePrepare" ->
           [tbo EXCEPT !.pre_prepares = tbo_queue_message(base_seq(tbo), @, m)]
      [] m.kind = "Prepare" ->
           [tbo EXCEPT !.prepares = tbo_queue_message(base_seq(tbo), @, m)]
      [] OTHER ->
           [tbo EXCEPT !.commits = tbo_queue_message(base_seq(tbo), @, m)]

(***************************************************************************)
(* Consensus: the deque of watermark decisions and the tbo queue.          *)
(***************************************************************************)
new_replica(node_id, view, seq_no, watermark) ==
    [node_id |-> node_id,
     watermark |-> watermark,
     seq_no |-> seq_no,
     decisions |-> [i \in 1..watermark |-> init_decision(node_id, seq_no + (i - 1), view)],
     tbo_queue |-> TboQueue_new(seq_no, watermark)]

\* A queue that sends every message that is not behind to the front decision.
consensus_queue_front(c, m) ==
    LET ix == SeqIndex(m.seq, c.seq_no) IN
    IF ix.left THEN c
    ELSE [c EXCEPT !.decisions[1] = decision_queue(@, m)]

\* Consensus::queue
consensus_queue(c, m) ==
    LET ix == SeqIndex(m.seq, c.seq_no) IN
    IF ix.left THEN c
    ELSE IF ix.i >= Len(c.decisions)
    THEN [c EXCEPT !.tbo_queue = tbo_queue(@, m)]
    ELSE [c EXCEPT !.decisions[ix.i + 1] = decision_queue(@, m)]

RECURSIVE poll_from(_, _)
\* Consensus::poll: the first decision, in order, that has a message to hand back.
poll_from(c, ind) ==
    IF ind > Len(c.decisions) THEN [status |-> "Recv", msg |-> <<>>, c |-> c]
    ELSE LET r == decision_poll(c.decisions[ind]) IN
         IF r.status = "NextMessage"
         THEN [status |-> "NextMessage", msg |-> r.msg,
               c |-> [c EXCEPT !.decisions[ind] = r.d]]
         ELSE poll_from(c, ind + 1)

consensus_poll(c) == poll_from(c, 1)

\* Consensus::process_message
consensus_process_message(c, m) ==
    LET ix == SeqIndex(m.seq, c.seq_no) IN
    IF ix.left THEN [status |-> "Deciding", node |-> -1, c |-> c]
    ELSE IF ix.i >= Len(c.decisions)
    THEN [status |-> "Deciding", node |-> -1, c |-> [c EXCEPT !.tbo_queue = tbo_queue(@, m)]]
    ELSE LET r == decision_process_message(c.decisions[ix.i + 1], m) IN
         [status |-> r.status, node |-> r.node,
          c |-> [c EXCEPT !.decisions[ix.i + 1] = r.d]]

\* Consensus::next_instance: pop the front decision, push a new tail decision
\* seeded with the front buckets of the tbo queue.
next_instance(c, view) ==
    LET seq_no == SeqNext(c.seq_no)
        decision == Head(c.decisions)
        adv == advance_queue(c.tbo_queue)
    IN [decision |-> decision,
        c |-> [c EXCEPT !.seq_no = seq_no,
                        !.tbo_queue = adv.tbo,
                        !.decisions = Append(Tail(c.decisions),
                                             init_with_msg_log(c.node_id, seq_no, view, adv.queue))]]

\* A finalize that does not ask whether the front decision is finalizeable.
consensus_finalize_unchecked(c, view) ==
    LET n == next_instance(c, view) IN
    [some |-> TRUE, batch |-> decision_finalize(n.decision), c |-> n.c]

\* Consensus::finalize
consensus_finalize(c, view) ==
    IF Len(c.decisions) = 0 \/ ~is_finalizeable(Head(c.decisions))
    THEN [some |-> FALSE, batch |-> <<>>, c |-> c]
    ELSE LET n == next_instance(c, view) IN
         [some |-> TRUE, batch |-> decision_finalize(n.decision), c |-> n.c]

\* Consensus::install_sequence_number: every branch of the match is empty.
install_sequence_number(c, seq_no) ==
    LET ix == SeqIndex(c.seq_no, seq_no) IN
    CASE ix.left -> c
      [] ix.i = 0 -> c
      [] OTHER -> c

RECURSIVE DecisionsBuffered(_)
DecisionsBuffered(ds) ==
    IF Len(ds) = 0 THEN 0
    ELSE Len(Head(ds).message_queue.pre_prepares) + Len(Head(ds).message_queue.prepares)
         + Len(Head(ds).message_queue.commits) + DecisionsBuffered(Tail(ds))

\* The number of messages one Consensus holds in its queues.
Buffered(c) ==
    DecisionsBuffered(c.decisions) + SumLen(c.tbo_queue.pre_prepares)
    + SumLen(c.tbo_queue.prepares) + SumLen(c.tbo_queue.commits)

(***************************************************************************)
(* TBOQueue of the single-instance Consensus (src/bft/consensus/mod.rs):   *)
(* per kind a deque of buckets, bucket i holding the messages of sequence  *)
(* number curr_seq + i.                                                    *)
(***************************************************************************)
TBOQueue_new_impl(curr_seq) ==
    [curr_seq |-> curr_seq, get_queue |-> FALSE,
     pre_prepares |-> <<>>, prepares |-> <<>>, commits |-> <<>>]

\* TBOQueue::pop_message: the front message of the front bucket, if any.
TBOQueue_pop_message(tbo) ==
    IF Len(tbo) = 0 \/ Len(tbo[1]) = 0 THEN [some |-> FALSE, m |-> <<>>, tbo |-> tbo]
    ELSE [some |-> TRUE, m |-> Head(tbo[1]), tbo |-> [tbo EXCEPT ![1] = Tail(@)]]

\* A queue_message that pushes at the front of the bucket.
TBOQueue_queue_message_front(curr_seq, tbo, m) ==
    LET index == m.seq - curr_seq IN
    IF index < 0 THEN tbo
    ELSE LET grown == IF index >= Len(tbo) THEN Extend(tbo, index - Len(tbo) + 1) ELSE tbo
         IN [grown EXCEPT ![index + 1] = <<m>> \o @]

\* TBOQueue::queue_message
TBOQueue_queue_message(curr_seq, tbo, m) ==
    LET index == m.seq - curr_seq IN
    IF index < 0 THEN tbo
    ELSE LET grown == IF index >= Len(tbo) THEN Extend(tbo, index - Len(tbo) + 1) ELSE tbo
         IN [grown EXCEPT ![index + 1] = Append(@, m)]

\* TBOQueue::advance_message_queue: pop_front, which does nothing on an empty deque.
TBOQueue_advance_message_queue(tbo) == IF Len(tbo) = 0 THEN tbo ELSE Tail(tbo)

TBOQueue_signal(tbo) == [tbo EXCEPT !.get_queue = TRUE]

\* extract_msg!: the popped message, or Recv with get_queue cleared.
extract_msg(tbo, kind) ==
    LET r == TBOQueue_pop_message(tbo[kind]) IN
    IF r.some THEN [status |-> "NextMessage", m |-> r.m, tbo |-> [tbo EXCEPT ![kind] = r.tbo]]
    ELSE [status |-> "Recv", m |-> <<>>, tbo |-> [tbo EXCEPT !.get_queue = FALSE]]

\* A poll_queue that serves the Preparing phase from the commits.
TBOQueue_poll_queue_mixed(tbo, phase) ==
    CASE phase.tag = "Init" -> [status |-> "ProposeAndRecv", m |-> <<>>, tbo |-> tbo]
      [] phase.tag = "PrePreparing" /\ tbo.get_queue -> extract_msg(tbo, "pre_prepares")
      [] phase.tag = "Preparing" /\ tbo.get_queue -> extract_msg(tbo, "commits")
      [] phase.tag = "Committing" /\ tbo.get_queue -> extract_msg(tbo, "commits")
      [] OTHER -> [status |-> "Recv", m |-> <<>>, tbo |-> tbo]

\* TBOQueue::poll_queue
TBOQueue_poll_queue(tbo, phase) ==
    CASE phase.tag = "Init" -> [status |-> "ProposeAndRecv", m |-> <<>>, tbo |-> tbo]
      [] phase.tag = "PrePreparing" /\ tbo.get_queue -> extract_msg(tbo, "pre_prepares")
      [] phase.tag = "Preparing" /\ tbo.get_queue -> extract_msg(tbo, "prepares")
      [] phase.tag = "Committing" /\ tbo.get_queue -> extract_msg(tbo, "commits")
      [] OTHER -> [status |-> "Recv", m |-> <<>>, tbo |-> tbo]

\* TBOQueue::next_instance_queue
TBOQueue_next_instance_queue(tbo) ==
    [tbo EXCEPT !.curr_seq = tbo.curr_seq + 1,
                !.pre_prepares = TBOQueue_advance_message_queue(@),
                !.prepares = TBOQueue_advance_message_queue(@),
                !.commits = TBOQueue_advance_message_queue(@)]

TBOQueue_queue_pre_prepare(tbo, m) ==
    [tbo EXCEPT !.pre_prepares = TBOQueue_queue_message(tbo.curr_seq, @, m)]

TBOQueue_queue_prepare(tbo, m) ==
    [tbo EXCEPT !.prepares = TBOQueue_queue_message(tbo.curr_seq, @, m)]

TBOQueue_queue_commit(tbo, m) ==
    [tbo EXCEPT !.commits = TBOQueue_queue_message(tbo.curr_seq, @, m)]

(***************************************************************************)
(* The single-instance Consensus (src/bft/consensus/mod.rs).  A phase is   *)
(* a record [tag, i], i the number of votes received.                      *)
(***************************************************************************)
ProtoPhase(tag, i) == [tag |-> tag, i |-> i]

Consensus_new(initial_seq_no) ==
    [phase |-> ProtoPhase("Init", 0), tbo |-> TBOQueue_new_impl(initial_seq_no),
     current |-> NoDigest]

Consensus_poll(c) ==
    LET r == TBOQueue_poll_queue(c.tbo, c.phase) IN
    [status |-> r.status, m |-> r.m, c |-> [c EXCEPT !.tbo = r.tbo]]

Consensus_next_instance(c) == [c EXCEPT !.tbo = TBOQueue_next_instance_queue(@)]

\* The replica leaves Init for PrePreparing once poll has told it to propose.
advance_init_phase(c) ==
    IF c.phase.tag = "Init" THEN [c EXCEPT !.phase = ProtoPhase("PrePreparing", 0)] ELSE c

\* What process_message returns: the status, the node of a VotedTwice, the
\* Consensus afterwards, and the kind of the message it broadcast, if any.
Status(status, c, out) == [status |-> status, node |-> -1, c |-> c, out |-> out]

\* The message is queued by its kind and the status is Deciding.
Queued(c, m) ==
    CASE m.kind = "PrePrepare" ->
           Status("Deciding", [c EXCEPT !.tbo = TBOQueue_queue_pre_prepare(@, m)], "none")
      [] m.kind = "Prepare" ->
           Status("Deciding", [c EXCEPT !.tbo = TBOQueue_queue_prepare(@, m)], "none")
      [] OTHER ->
           Status("Deciding", [c EXCEPT !.tbo = TBOQueue_queue_commit(@, m)], "none")

\* process_message, the arm of ProtoPhase::Init
process_Init(c, m, id) == Queued(c, m)

\* process_message, the arm of ProtoPhase::PrePreparing
process_PrePreparing(c, m, id) ==
    IF m.kind = "PrePrepare" /\ m.seq = c.tbo.curr_seq
    THEN Status("Deciding",
                [c EXCEPT !.current = m.sig, !.phase = ProtoPhase("Preparing", 0)],
                IF id # ViewLeader(CurrentView) THEN "Prepare" ELSE "none")
    ELSE Queued(c, m)

\* A Preparing arm that starts the instance over on a second PRE-PREPARE.
process_Preparing_restart(c, m, id) ==
    IF m.kind = "PrePrepare"
    THEN Status("Deciding", [c EXCEPT !.phase = ProtoPhase("PrePreparing", 0)], "none")
    ELSE IF m.kind = "Prepare" /\ m.seq = c.tbo.curr_seq
    THEN Status("Deciding", [c EXCEPT !.phase = ProtoPhase("Preparing", c.phase.i + 1)], "none")
    ELSE Queued(c, m)

\* process_message, the arm of ProtoPhase::Preparing(i)
process_Preparing(c, m, id) ==
    IF m.kind = "Prepare" /\ m.seq = c.tbo.curr_seq
    THEN LET i == c.phase.i + 1 IN
         IF i = ViewQuorum
         THEN Status("Deciding", [c EXCEPT !.phase = ProtoPhase("Committing", 0)], "Commit")
         ELSE Status("Deciding", [c EXCEPT !.phase = ProtoPhase("Preparing", i)], "none")
    ELSE Queued(c, m)

\* process_message, the arm of ProtoPhase::Commiting(i); the value of the arm
\* is read as the next phase, Executing standing for a decided instance.
process_Committing(c, m, id) ==
    IF m.kind = "Commit" /\ m.seq = c.tbo.curr_seq
    THEN LET i == c.phase.i + 1 IN
         IF i = ViewQuorum
         THEN Status("Decided", [c EXCEPT !.phase = ProtoPhase("Executing", 0)], "none")
         ELSE Status("Deciding", [c EXCEPT !.phase = ProtoPhase("Committing", i)], "none")
    ELSE Queued(c, m)

\* Consensus::process_message
Consensus_process_message(c, m, id) ==
    CASE c.phase.tag = "Init" -> process_Init(c, m, id)
      [] c.phase.tag = "PrePreparing" -> process_PrePreparing(c, m, id)
      [] c.phase.tag = "Preparing" -> process_Preparing(c, m, id)
      [] c.phase.tag = "Committing" -> process_Committing(c, m, id)
      [] OTHER -> Status("Deciding", c, "none")

\* The number of messages the TBOQueue of a Consensus holds.
Queued_count(c) == SumLen(c.tbo.pre_prepares) + SumLen(c.tbo.prepares) + SumLen(c.tbo.commits)

(***************************************************************************)
(* The view-change Synchronizer (febft-pbft-consensus/src/bft/sync/mod.rs).*)
(* A view is named by its sequence number; a ViewDecisionPair is a record  *)
(* [ts, value]; a CollectData is a record [executing, quorum_prepares,     *)
(* write_set, last_proof], NoPair and NoProof standing for None.           *)
(***************************************************************************)
NoPair == [ts |-> -1, value |-> NoDigest]
NoProof == [seq |-> -1, digest |-> NoDigest, prepares |-> <<>>, commits |-> <<>>]
NoCollect == [executing |-> -1, quorum_prepares |-> NoPair, write_set |-> <<>>,
              last_proof |-> NoProof]

ViewDecisionPair(ts, value) == [ts |-> ts, value |-> value]

\* A stored PREPARE or COMMIT of a proof: the digest it proposes and whether
\* its signature verifies.
StoredVote(digest, signed) == [digest |-> digest, signed |-> signed]

\* A Proof: the decided instance, the digest of its batch, and its PREPAREs and COMMITs.
Proof(seq, digest, prepares, commits) ==
    [seq |-> seq, digest |-> digest, prepares |-> prepares, commits |-> commits]

CollectData(executing, quorum_prepares, write_set, last_proof) ==
    [executing |-> executing, quorum_prepares |-> quorum_prepares,
     write_set |-> write_set, last_proof |-> last_proof]

\* The normalized collects that are Some.
SomeCollects(nc) == {n \in DOMAIN nc : nc[n] # NoCollect}

RECURSIVE SumOver(_, _)
\* The sum of F[n] over the nodes n of a set.
SumOver(F, S) ==
    IF S = {} THEN 0
    ELSE LET n == CHOOSE x \in S : TRUE IN F[n] + SumOver(F, S \ {n})

quorum_highest(ts, value, nc) ==
    LET appears ==
            \E n \in SomeCollects(nc) :
                /\ nc[n].quorum_prepares # NoPair
                /\ nc[n].quorum_prepares.ts = ts
                /\ nc[n].quorum_prepares.value = value
        count ==
            Cardinality({n \in SomeCollects(nc) :
                /\ nc[n].quorum_prepares # NoPair
                /\ \/ nc[n].quorum_prepares.ts < ts
                   \/ /\ nc[n].quorum_prepares.ts = ts
                      /\ nc[n].quorum_prepares.value = value})
    IN appears /\ count >= ViewQuorum

\* A certified_value that one write of the value is enough for.
certified_value_once(ts, value, nc) ==
    \E n \in SomeCollects(nc) : \E i \in 1..Len(nc[n].write_set) :
        nc[n].write_set[i].ts >= ts /\ nc[n].write_set[i].value = value

certified_value(ts, value, nc) ==
    LET Matching(write_set) ==
            {i \in 1..Len(write_set) : write_set[i].ts >= ts /\ write_set[i].value = value}
        count == SumOver([n \in SomeCollects(nc) |-> Cardinality(Matching(nc[n].write_set))],
                         SomeCollects(nc))
    IN count > ViewF

binds(ts, value, nc) ==
    IF Cardinality(DOMAIN nc) < ViewQuorum THEN FALSE
    ELSE quorum_highest(ts, value, nc) /\ certified_value(ts, value, nc)

\* An unbound that does not count the collects normalized to None.
unbound_of_some(nc) ==
    IF Cardinality(DOMAIN nc) < ViewQuorum THEN FALSE
    ELSE Cardinality({n \in SomeCollects(nc) :
             \/ nc[n].quorum_prepares = NoPair
             \/ nc[n].quorum_prepares.ts = 0}) >= ViewQuorum

unbound(nc) ==
    IF Cardinality(DOMAIN nc) < ViewQuorum THEN FALSE
    ELSE LET count ==
                 Cardinality({n \in DOMAIN nc :
                     \/ nc[n] = NoCollect
                     \/ nc[n].quorum_prepares = NoPair
                     \/ nc[n].quorum_prepares.ts = 0})
         IN count >= ViewQuorum

Bound(value) == [bound |-> TRUE, value |-> value, ok |-> TRUE]
Unbound(ok) == [bound |-> FALSE, value |-> NoDigest, ok |-> ok]

\* Sound::test
sound_test(snd) == IF snd.bound THEN TRUE ELSE snd.ok

\* sound: the results the iteration over the two hash sets can produce, the
\* first pair found to bind giving the value.
sound(nc) ==
    LET seq_numbers ==
            {0 : n \in (DOMAIN nc) \ SomeCollects(nc)}
            \cup {IF nc[n].quorum_prepares = NoPair THEN 0 ELSE nc[n].quorum_prepares.ts :
                     n \in SomeCollects(nc)}
            \cup UNION {{nc[n].write_set[i].ts : i \in 1..Len(nc[n].write_set)} :
                           n \in SomeCollects(nc)}
        values ==
            UNION {{nc[n].write_set[i].value : i \in 1..Len(nc[n].write_set)} :
                      n \in SomeCollects(nc)}
        bindings == {v \in values : \E ts \in seq_numbers : binds(ts, v, nc)}
    IN IF bindings # {} THEN {Bound(v) : v \in bindings}
       ELSE {Unbound(unbound(nc))}

\* normalized_collects: None for the collects of another instance than in_exec.
normalized_collects(in_exec, collects) ==
    [n \in DOMAIN collects |->
        IF collects[n].executing = in_exec THEN collects[n] ELSE NoCollect]

\* validate_signature: whether the signature of a stored message verifies.
validate_signature(stored) == stored.signed

\* A highest_proof that takes the last proofs as they come, signed or not.
highest_proof_unchecked(collects) ==
    LET proofs == {collects[n].last_proof : n \in DOMAIN collects} \ {NoProof}
    IN IF proofs = {} THEN NoProof
       ELSE CHOOSE p \in proofs : \A q \in proofs : q.seq <= p.seq

\* highest_proof: of the last proofs that hold a quorum of signed COMMITs and a
\* quorum of signed PREPAREs of their digest, one of the highest sequence number.
highest_proof(collects) ==
    LET proofs == {collects[n].last_proof : n \in DOMAIN collects} \ {NoProof}
        Count(votes, digest) ==
            Cardinality({i \in 1..Len(votes) :
                /\ votes[i].digest = digest
                /\ validate_signature(votes[i])})
        valid == {p \in proofs :
                     /\ Count(p.commits, p.digest) >= ViewQuorum
                     /\ Count(p.prepares, p.digest) >= ViewQuorum}
    IN IF valid = {} THEN NoProof
       ELSE CHOOSE p \in valid : \A q \in valid : q.seq <= p.seq

\* tbo_pop_message: the front message of the front bucket, if any.
tbo_pop_message(tbo) ==
    IF Len(tbo) = 0 \/ Len(tbo[1]) = 0 THEN [some |-> FALSE, m |-> <<>>, tbo |-> tbo]
    ELSE [some |-> TRUE, m |-> Head(tbo[1]), tbo |-> [tbo EXCEPT ![1] = Tail(@)]]

\* tbo_advance_message_queue: pop the front bucket.
tbo_advance_message_queue(tbo) == IF Len(tbo) = 0 THEN tbo ELSE Tail(tbo)

NoView == -1

\* TboQueue::new of the Synchronizer
\* view, next_view and previous_view are the sequence numbers of the views,
\* members and next_members the quorum members of view and of next_view.
SyncTbo_new(view) ==
    [view |-> view, next_view |-> NoView, previous_view |-> NoView, get_queue |-> FALSE,
     stop |-> <<>>, stop_data |-> <<>>, sync |-> <<>>,
     members |-> Members, next_members |-> <<>>]

SyncTbo_next_instance_queue(tbo) ==
    [tbo EXCEPT !.stop = tbo_advance_message_queue(@),
                !.stop_data = tbo_advance_message_queue(@),
                !.sync = tbo_advance_message_queue(@)]

RECURSIVE SyncTbo_advance_by(_, _)
SyncTbo_advance_by(tbo, i) ==
    IF i <= 0 THEN tbo ELSE SyncTbo_advance_by(SyncTbo_next_instance_queue(tbo), i - 1)

\* An install_view that takes a view of the sequence number it is at as well.
SyncTbo_install_view_same(tbo, view, members) ==
    LET index == SeqIndex(view, tbo.view) IN
    IF ~index.left
    THEN SyncTbo_advance_by([tbo EXCEPT !.previous_view = tbo.view, !.view = view,
                                        !.members = members], index.i)
    ELSE tbo

\* TboQueue::install_view: the view of sequence number view and of the given
\* members is installed if it is ahead of the current one, and refused if it
\* has the same sequence number; an older one ends in unreachable!().
SyncTbo_install_view(tbo, view, members) ==
    LET index == SeqIndex(view, tbo.view) IN
    IF ~index.left /\ index.i > 0
    THEN SyncTbo_advance_by([tbo EXCEPT !.previous_view = tbo.view, !.view = view,
                                        !.members = members], index.i)
    ELSE tbo

\* What install_view returns: true if the view was installed.
SyncTbo_install_view_ok(tbo, view) ==
    LET index == SeqIndex(view, tbo.view) IN ~index.left /\ index.i > 0

\* install_view panics on a view behind the current one.
SyncTbo_install_view_panics(tbo, view) == SeqIndex(view, tbo.view).left

\* TboQueue::install_next_view
SyncTbo_install_next_view(tbo, view, members) ==
    [tbo EXCEPT !.next_view = view, !.next_members = members]

\* TboQueue::advance
SyncTbo_advance(tbo) ==
    IF tbo.next_view # NoView
    THEN SyncTbo_install_view([tbo EXCEPT !.next_view = NoView, !.next_members = <<>>],
                              tbo.next_view, tbo.next_members)
    ELSE tbo

SyncTbo_queue_stop(tbo, m) ==
    [tbo EXCEPT !.stop = tbo_queue_message(SeqNext(tbo.view), @, m)]

SyncTbo_queue_stop_data(tbo, m) ==
    [tbo EXCEPT !.stop_data = tbo_queue_message(SeqNext(tbo.view), @, m)]

SyncTbo_queue_sync(tbo, m) ==
    [tbo EXCEPT !.sync = tbo_queue_message(SeqNext(tbo.view), @, m)]

SyncPhase(tag, i) == [tag |-> tag, i |-> i]

\* A FinalizeState, and the finalize_state that is None.
FinalizeState(curr_cid, snd, proposed, last_proof) ==
    [curr_cid |-> curr_cid, sound |-> snd, proposed |-> proposed, last_proof |-> last_proof]

NoFinalizeState == FinalizeState(-1, Unbound(FALSE), NoDigest, NoProof)

\* currently_adding_node that is None.
NoJoining == -1

\* Synchronizer::new_replica; currently_adding maps a candidate to the senders
\* of the STOP-QUORUM-JOIN that name it.
Synchronizer_new(node_id, view) ==
    [node_id |-> node_id, phase |-> SyncPhase("Init", 0), tbo |-> SyncTbo_new(view),
     stopped |-> {}, collects |-> <<>>, finalize_state |-> NoFinalizeState,
     currently_adding |-> <<>>, currently_adding_node |-> NoJoining]

\* No view change was finalized by the call.
NoFinal == [view |-> NoView, curr_cid |-> -1, proposed |-> NoDigest, sound |-> Unbound(FALSE)]

\* The SYNC of the view seq with the PRE-PREPARE forged for the batch proposed
\* and the collects, and no SYNC.
LeaderCollects(seq, proposed, collects) ==
    [seq |-> seq, proposed |-> proposed, collects |-> collects]

NoSync == LeaderCollects(NoView, NoDigest, <<>>)

\* stops and joins count the STOP and STOP-QUORUM-JOIN broadcast by the call,
\* and sync is the SYNC it has broadcast.
SyncStatus(status, s) ==
    [status |-> status, s |-> s, final |-> NoFinal, stops |-> 0, joins |-> 0, sync |-> NoSync]

\* stop_status!
stop_status(i, s) == SyncStatus(IF i > ViewF THEN "Running" ELSE "Nil", s)

\* A begin_view_change that broadcasts a STOP whatever the phase is.
begin_view_change_stops_always(s, timed_out) == 1

\* Synchronizer::begin_view_change: the number of STOP messages broadcast by
\* handle_begin_view_change, which the arm of the phases that have sent their
\* STOP returns before.
begin_view_change_stops(s, timed_out) ==
    IF s.phase.tag \in {"StoppingData", "Syncing", "Stopping2"} THEN 0 ELSE 1

\* A begin_view_change that lets a quorum join that has begun go on.
begin_view_change_after_join(s, timed_out) ==
    CASE s.phase.tag = "Stopping" /\ ~timed_out ->
           [s EXCEPT !.phase = SyncPhase("Stopping2", s.phase.i + 1)]
      [] s.phase.tag = "Stopping" ->
           [s EXCEPT !.phase = SyncPhase("Stopping2", s.phase.i)]
      [] s.phase.tag \in {"StoppingData", "Syncing", "Stopping2",
                          "ViewStopping", "ViewStopping2"} -> s
      [] OTHER ->
           [s EXCEPT !.stopped = {}, !.collects = <<>>, !.currently_adding_node = NoJoining,
                     !.currently_adding = <<>>, !.phase = SyncPhase("Stopping2", 0)]

\* Synchronizer::begin_view_change; timed_out tells whether requests timed out here.
begin_view_change(s, timed_out) ==
    CASE s.phase.tag = "Stopping" /\ ~timed_out ->
           [s EXCEPT !.phase = SyncPhase("Stopping2", s.phase.i + 1)]
      [] s.phase.tag = "Stopping" ->
           [s EXCEPT !.phase = SyncPhase("Stopping2", s.phase.i)]
      [] s.phase.tag \in {"ViewStopping", "ViewStopping2"} /\ ~timed_out ->
           [s EXCEPT !.phase = SyncPhase("Stopping", 1)]
      [] s.phase.tag \in {"ViewStopping", "ViewStopping2"} ->
           [s EXCEPT !.phase = SyncPhase("Stopping2", 0)]
      [] s.phase.tag \in {"StoppingData", "Syncing", "Stopping2"} -> s
      [] OTHER ->
           [s EXCEPT !.stopped = {}, !.collects = <<>>, !.currently_adding_node = NoJoining,
                     !.currently_adding = <<>>, !.phase = SyncPhase("Stopping2", 0)]

\* Synchronizer::begin_quorum_view_change: the number of STOP-QUORUM-JOIN
\* broadcast by handle_begin_quorum_view_change; join_cert tells whether the
\* reconfiguration protocol has notified this replica.
begin_quorum_view_change_joins(s, join_cert) ==
    IF s.phase.tag \in {"StoppingData", "Syncing", "ViewStopping2"} \/ ~join_cert
    THEN 0 ELSE 1

\* Synchronizer::begin_quorum_view_change
begin_quorum_view_change(s, join_cert) ==
    CASE s.phase.tag = "ViewStopping" /\ ~join_cert ->
           [s EXCEPT !.phase = SyncPhase("ViewStopping", s.phase.i + 1)]
      [] s.phase.tag = "ViewStopping" ->
           [s EXCEPT !.phase = SyncPhase("ViewStopping2", s.phase.i)]
      [] s.phase.tag \in {"StoppingData", "Syncing", "ViewStopping2"} -> s
      [] OTHER ->
           [s EXCEPT !.stopped = {}, !.collects = <<>>, !.currently_adding_node = NoJoining,
                     !.currently_adding = <<>>, !.phase = SyncPhase("ViewStopping2", 0)]

\* Synchronizer::start_join_quorum: the answer, the Synchronizer after it and
\* the number of STOP-QUORUM-JOIN it has broadcast.
start_join_quorum(s, joining_node) ==
    CASE \E i \in 1..Len(s.tbo.members) : s.tbo.members[i] = joining_node ->
           [SyncStatus("AlreadyPartOfQuorum", s) EXCEPT !.joins = 0]
      [] s.phase.tag = "Init" ->
           [SyncStatus("InProgress", begin_quorum_view_change(s, TRUE))
               EXCEPT !.joins = begin_quorum_view_change_joins(s, TRUE)]
      [] s.phase.tag \in {"StoppingData", "SyncingState", "Syncing"}
           /\ s.currently_adding_node # NoJoining ->
           SyncStatus("OnGoingQuorumChange", s)
      [] OTHER -> SyncStatus("OnGoingViewChange", s)

\* The batch of a PRE-PREPARE forged from no pending request.
EmptyBatch == "empty"

\* A finalize that answers NewView whether or not a node was being added, and
\* leaves the node being added in place.
sync_finalize_new_view(s, state) ==
    LET tbo == SyncTbo_advance(s.tbo) IN
    [status |-> "NewView",
     s |-> [s EXCEPT !.tbo = tbo, !.phase = SyncPhase("Init", 0)],
     final |-> [view |-> tbo.view, curr_cid |-> state.curr_cid,
                proposed |-> state.proposed, sound |-> state.sound],
     stops |-> 0, joins |-> 0, sync |-> NoSync]

\* Synchronizer::finalize
sync_finalize(s, state) ==
    LET tbo == SyncTbo_advance(s.tbo)
        joined == s.currently_adding_node # NoJoining
    IN
    [status |-> IF joined THEN "NewViewJoinedQuorum" ELSE "NewView",
     s |-> [s EXCEPT !.tbo = tbo, !.phase = SyncPhase("Init", 0),
                     !.currently_adding_node = NoJoining,
                     !.currently_adding = IF joined THEN <<>> ELSE @],
     final |-> [view |-> tbo.view, curr_cid |-> state.curr_cid,
                proposed |-> state.proposed, sound |-> state.sound],
     stops |-> 0, joins |-> 0, sync |-> NoSync]

\* Synchronizer::pre_finalize; proof is the highest proof handed to it and
\* last_execution the last execution of the decision log.
pre_finalize(state, proof, last_execution) ==
    LET last_executed_cid == IF proof = NoProof THEN 0 ELSE proof.seq IN
    IF last_execution + 1 < last_executed_cid THEN "RunCst"
    ELSE IF state.proposed = EmptyBatch /\ ~sound_test(state.sound) THEN "NoValue"
    ELSE "Commit"

\* finalize_view_change!: pre_finalize and what follows its answer.
finalize_view_change(s, state, proof, last_execution) ==
    LET status == pre_finalize(state, proof, last_execution) IN
    CASE status = "NoValue" -> SyncStatus("Running", s)
      [] status = "RunCst" ->
           SyncStatus("RunCst", [s EXCEPT !.finalize_state = state,
                                          !.phase = SyncPhase("SyncingState", 0)])
      [] OTHER -> sync_finalize(s, state)

\* Synchronizer::resume_view_change: None if no FinalizeState was saved, else
\* the saved one is taken and finalized with no proof.
resume_view_change(s, last_execution) ==
    IF s.finalize_state = NoFinalizeState THEN SyncStatus("None", s)
    ELSE finalize_view_change([s EXCEPT !.finalize_state = NoFinalizeState],
                              s.finalize_state, NoProof, last_execution)

\* process_message, the arm of ProtoPhase::Init
sync_Init(s, m) ==
    CASE m.kind \in {"Stop", "StopQuorumJoin"} ->
           SyncStatus("Nil", [s EXCEPT !.tbo = SyncTbo_queue_stop(@, m)])
      [] m.kind = "StopData" ->
           SyncStatus("Nil", [s EXCEPT !.tbo = SyncTbo_queue_stop_data(@, m)])
      [] OTHER -> SyncStatus("Nil", [s EXCEPT !.tbo = SyncTbo_queue_sync(@, m)])

\* ReplicaSynchronizer::handle_stopping_quorum: the stopped requests are drained
\* to be registered again, and the STOP-DATA is sent to the new leader.
handle_stopping_quorum(stopped) == {}

\* A Stopping arm that counts every STOP of the next view, whoever sent it.
sync_Stopping_recount(s, m) ==
    IF m.kind = "Stop" /\ m.seq = SeqNext(s.tbo.view)
    THEN SyncStatus("Running", [s EXCEPT !.stopped = @ \cup {m.from},
                                         !.phase = SyncPhase("Stopping2", s.phase.i + 1)])
    ELSE stop_status(s.phase.i, s)

\* process_message, the arm of ProtoPhase::Stopping(i) | ProtoPhase::Stopping2(i)
sync_Stopping(s, m) ==
    LET i == s.phase.i
        next_seq == SeqNext(s.tbo.view)
    IN
    CASE m.kind \in {"Stop", "StopQuorumJoin"} /\ m.seq # next_seq ->
           stop_status(i, [s EXCEPT !.tbo = SyncTbo_queue_stop(@, m)])
      [] m.kind = "Stop" /\ m.from \in s.stopped -> stop_status(i, s)
      [] m.kind = "StopQuorumJoin" -> stop_status(i, s)
      [] m.kind = "StopData" ->
           stop_status(i, [s EXCEPT !.tbo = SyncTbo_queue_stop_data(@, m)])
      [] m.kind = "Sync" ->
           stop_status(i, [s EXCEPT !.tbo = SyncTbo_queue_sync(@, m)])
      [] OTHER ->
           LET j == i + 1
               t == [s EXCEPT !.stopped = @ \cup {m.from}]
           IN
           IF s.phase.tag = "Stopping"
           THEN IF j > ViewF
                THEN [SyncStatus("Running", begin_view_change(t, FALSE))
                         EXCEPT !.stops = begin_view_change_stops(t, FALSE)]
                ELSE SyncStatus("Nil", [t EXCEPT !.phase = SyncPhase("Stopping", j)])
           ELSE IF j >= ViewQuorum
           THEN SyncStatus("Running",
                    [t EXCEPT !.tbo = SyncTbo_install_next_view(@, next_seq, @.members),
                              !.stopped = handle_stopping_quorum(@),
                              !.phase = IF view_leader(next_seq, s.tbo.members) = s.node_id
                                        THEN SyncPhase("StoppingData", 0)
                                        ELSE SyncPhase("Syncing", 0)])
           ELSE SyncStatus("Running", [t EXCEPT !.phase = SyncPhase("Stopping2", j)])

\* currently_adding with the sender of the STOP-QUORUM-JOIN m among the voters
\* of the candidate it names.
insert_vote(currently_adding, m) ==
    [n \in (DOMAIN currently_adding) \cup {m.node} |->
        IF n = m.node
        THEN (IF n \in DOMAIN currently_adding THEN currently_adding[n] ELSE {}) \cup {m.from}
        ELSE currently_adding[n]]

\* (node, voters.len()): the number of senders that named the candidate.
vote_count(currently_adding, node) == Cardinality(currently_adding[node])

\* The first of the candidates sorted by their number of voters, the largest first.
first_vote(currently_adding) ==
    CHOOSE n \in DOMAIN currently_adding :
        \A o \in DOMAIN currently_adding :
            \/ vote_count(currently_adding, o) < vote_count(currently_adding, n)
            \/ vote_count(currently_adding, o) = vote_count(currently_adding, n) /\ n <= o

\* process_message, the arm of ProtoPhase::ViewStopping(i) | ProtoPhase::ViewStopping2(i)
sync_ViewStopping(s, m) ==
    LET i == s.phase.i
        next_seq == SeqNext(s.tbo.view)
        quorum == view_quorum(s.tbo.members)
    IN
    CASE m.kind \in {"Stop", "StopQuorumJoin"} /\ m.seq # next_seq ->
           stop_status(i, [s EXCEPT !.tbo = SyncTbo_queue_stop(@, m)])
      [] m.kind = "Stop" ->
           SyncStatus("Running", [s EXCEPT !.tbo = SyncTbo_queue_stop(@, m),
                                           !.phase = SyncPhase("Stopping", 0)])
      [] m.kind = "StopData" ->
           stop_status(i, [s EXCEPT !.tbo = SyncTbo_queue_stop_data(@, m)])
      [] m.kind = "Sync" ->
           stop_status(i, [s EXCEPT !.tbo = SyncTbo_queue_sync(@, m)])
      [] OTHER ->
           LET received == i + 1
               votes == insert_vote(s.currently_adding, m)
               t == [s EXCEPT !.currently_adding = votes]
               node_to_add == first_vote(votes)
               next_members == next_view_with_new_node(s.tbo.members, node_to_add)
           IN
           IF received < quorum
           THEN SyncStatus("Running", [t EXCEPT !.phase = SyncPhase("ViewStopping2", received)])
           ELSE IF vote_count(votes, node_to_add) >= quorum
           THEN SyncStatus("Running",
                    [t EXCEPT !.currently_adding_node = m.node,
                              !.tbo = SyncTbo_install_next_view(@, next_seq, next_members),
                              !.stopped = handle_stopping_quorum(@),
                              !.phase = IF view_leader(next_seq, next_members) = s.node_id
                                        THEN SyncPhase("StoppingData", 0)
                                        ELSE SyncPhase("Syncing", 0)])
           ELSE IF received >= Len(s.tbo.members)
           THEN SyncStatus("Panic", s)
           ELSE SyncStatus("Running", [t EXCEPT !.phase = SyncPhase("ViewStopping", received)])

\* The collects with the STOP-DATA m stored under its sender.
insert_collect(collects, m) ==
    [n \in (DOMAIN collects) \cup {m.from} |-> IF n = m.from THEN m.collect ELSE collects[n]]

\* A curr_cid that is the sequence number of the highest proof itself.
curr_cid_of_proof(proof) == IF proof = NoProof THEN 0 ELSE proof.seq

\* The sequence number after the one of the highest proof, or zero.
curr_cid_of(proof) == IF proof = NoProof THEN 0 ELSE proof.seq + 1

\* What sound can answer for the collects, normalized to the instance after the highest proof.
sound_of(collects) ==
    sound(normalized_collects(curr_cid_of(highest_proof(collects)), collects))

\* A StoppingData arm that stores the STOP-DATA of a sender it has stored one
\* of already.
sync_StoppingData_twice(s, m, p, snd) ==
    LET seq == s.tbo.next_view IN
    CASE m.kind \in {"Stop", "StopQuorumJoin"} ->
           SyncStatus("Running", [s EXCEPT !.tbo = SyncTbo_queue_stop(@, m)])
      [] m.kind = "Sync" ->
           SyncStatus("Running", [s EXCEPT !.tbo = SyncTbo_queue_sync(@, m)])
      [] m.seq # seq ->
           IF ViewLeader(m.seq) = s.node_id
           THEN SyncStatus("Running", [s EXCEPT !.tbo = SyncTbo_queue_stop_data(@, m)])
           ELSE SyncStatus("Running", s)
      [] view_leader(seq, s.tbo.next_members) # s.node_id -> SyncStatus("Running", s)
      [] OTHER ->
           LET i == s.phase.i + 1
               collects == insert_collect(s.collects, m)
               t == [s EXCEPT !.collects = collects]
               proof == highest_proof(collects)
           IN
           IF i < ViewQuorum
           THEN SyncStatus("Running", [t EXCEPT !.phase = SyncPhase("StoppingData", i)])
           ELSE [finalize_view_change(t, FinalizeState(curr_cid_of(proof), snd, p, proof),
                                      proof, 0)
                    EXCEPT !.sync = LeaderCollects(seq, p, collects)]

\* process_message, the arm of ProtoPhase::StoppingData(i); p is the batch of
\* the pending requests and snd the answer of sound.
sync_StoppingData(s, m, p, snd) ==
    LET seq == s.tbo.next_view IN
    CASE m.kind \in {"Stop", "StopQuorumJoin"} ->
           SyncStatus("Running", [s EXCEPT !.tbo = SyncTbo_queue_stop(@, m)])
      [] m.kind = "Sync" ->
           SyncStatus("Running", [s EXCEPT !.tbo = SyncTbo_queue_sync(@, m)])
      [] m.seq # seq ->
           IF ViewLeader(m.seq) = s.node_id
           THEN SyncStatus("Running", [s EXCEPT !.tbo = SyncTbo_queue_stop_data(@, m)])
           ELSE SyncStatus("Running", s)
      [] view_leader(seq, s.tbo.next_members) # s.node_id -> SyncStatus("Running", s)
      [] m.from \in DOMAIN s.collects -> SyncStatus("Running", s)
      [] OTHER ->
           LET i == s.phase.i + 1
               collects == insert_collect(s.collects, m)
               t == [s EXCEPT !.collects = collects]
               proof == highest_proof(collects)
           IN
           IF i < ViewQuorum
           THEN SyncStatus("Running", [t EXCEPT !.phase = SyncPhase("StoppingData", i)])
           ELSE [finalize_view_change(t, FinalizeState(curr_cid_of(proof), snd, p, proof),
                                      proof, 0)
                    EXCEPT !.sync = LeaderCollects(seq, p, collects)]

\* signed_collects: the stored messages whose signature is valid, valid being
\* the senders whose STOP-DATA validate_signature accepts.
signed_collects_among(collects, valid) ==
    [n \in (DOMAIN collects) \cap valid |-> collects[n]]

\* signed_collects on STOP-DATA that all verify.
signed_collects(collects) == signed_collects_among(collects, DOMAIN collects)

\* A Syncing arm that takes the SYNC of the next view of any sender.
sync_Syncing_of_any(s, m, snd) ==
    LET seq == s.tbo.next_view IN
    CASE m.kind \in {"Stop", "StopQuorumJoin"} ->
           SyncStatus("Running", [s EXCEPT !.tbo = SyncTbo_queue_stop(@, m)])
      [] m.kind = "StopData" ->
           SyncStatus("Running", [s EXCEPT !.tbo = SyncTbo_queue_stop_data(@, m)])
      [] m.seq # seq ->
           SyncStatus("Running", [s EXCEPT !.tbo = SyncTbo_queue_sync(@, m)])
      [] OTHER ->
           LET proof == highest_proof(signed_collects(m.collects)) IN
           finalize_view_change(s, FinalizeState(curr_cid_of(proof), snd, m.proposed, proof),
                                proof, 0)

\* process_message, the arm of ProtoPhase::Syncing; snd is the answer of sound.
sync_Syncing(s, m, snd) ==
    LET seq == s.tbo.next_view IN
    CASE m.kind \in {"Stop", "StopQuorumJoin"} ->
           SyncStatus("Running", [s EXCEPT !.tbo = SyncTbo_queue_stop(@, m)])
      [] m.kind = "StopData" ->
           SyncStatus("Running", [s EXCEPT !.tbo = SyncTbo_queue_stop_data(@, m)])
      [] m.seq # seq ->
           SyncStatus("Running", [s EXCEPT !.tbo = SyncTbo_queue_sync(@, m)])
      [] m.from # view_leader(seq, s.tbo.next_members) -> SyncStatus("Running", s)
      [] OTHER ->
           LET proof == highest_proof(signed_collects(m.collects)) IN
           finalize_view_change(s, FinalizeState(curr_cid_of(proof), snd, m.proposed, proof),
                                proof, 0)

\* The answers sound can give when s processes m.
sound_answers(s, m) ==
    CASE s.phase.tag = "StoppingData" /\ m.kind = "StopData" ->
           sound_of(insert_collect(s.collects, m))
      [] s.phase.tag = "Syncing" /\ m.kind = "Sync" -> sound_of(signed_collects(m.collects))
      [] OTHER -> {Unbound(FALSE)}

\* Synchronizer::process_message
sync_process_message(s, m, p, snd) ==
    CASE s.phase.tag = "Init" -> sync_Init(s, m)
      [] s.phase.tag \in {"Stopping", "Stopping2"} -> sync_Stopping(s, m)
      [] s.phase.tag \in {"ViewStopping", "ViewStopping2"} -> sync_ViewStopping(s, m)
      [] s.phase.tag = "StoppingData" -> sync_StoppingData(s, m, p, snd)
      [] s.phase.tag = "Syncing" -> sync_Syncing(s, m, snd)
      [] OTHER -> SyncStatus("Panic", s)

\* extract_msg! of the Synchronizer
sync_extract_msg(s, kind) ==
    LET r == tbo_pop_message(s.tbo[kind]) IN
    IF r.some
    THEN [status |-> "NextMessage", m |-> r.m, s |-> [s EXCEPT !.tbo[kind] = r.tbo]]
    ELSE [status |-> "Recv", m |-> <<>>, s |-> [s EXCEPT !.tbo.get_queue = FALSE]]

\* Synchronizer::poll
sync_poll(s) ==
    CASE ~s.tbo.get_queue -> [status |-> "Recv", m |-> <<>>, s |-> s]
      [] s.phase.tag = "Init" ->
           LET r == sync_extract_msg(s, "stop") IN
           IF r.status = "NextMessage"
           THEN [r EXCEPT !.s.phase = IF r.m.kind = "StopQuorumJoin"
                                      THEN SyncPhase("ViewStopping", 0)
                                      ELSE SyncPhase("Stopping", 0)]
           ELSE r
      [] s.phase.tag \in {"Stopping", "Stopping2", "ViewStopping", "ViewStopping2"} ->
           sync_extract_msg(s, "stop")
      [] s.phase.tag = "StoppingData" -> sync_extract_msg(s, "stop_data")
      [] s.phase.tag = "Syncing" -> sync_extract_msg(s, "sync")
      [] OTHER -> [status |-> "ResumeViewChange", m |-> <<>>, s |-> s]

\* A ViewInfo handed over by the state transfer: its sequence number, its
\* members and the sequence number of its previous_view, if it has one.
ViewInfo(seq, members, previous_view) ==
    [seq |-> seq, members |-> members, previous_view |-> previous_view]

\* can_process_stop_data and can_process_sync
can_process(tbo) == Len(tbo) > 0 /\ Len(tbo[1]) > 0

\* Synchronizer::received_view_from_state_transfer: the return value is true
\* when the view change has to be run to install the view; an install_view
\* of a view behind the current one panics.
received_view_from_state_transfer(s, view) ==
    IF view.previous_view # NoView
    THEN LET skip == s.tbo.view = view.previous_view
             refused == ~skip /\ ~SyncTbo_install_view_ok(s.tbo, view.previous_view)
             tbo == IF skip THEN s.tbo
                    ELSE SyncTbo_install_view(s.tbo, view.previous_view, view.members)
             t == [s EXCEPT !.tbo = tbo,
                            !.phase = IF refused THEN SyncPhase("Init", 0) ELSE @]
         IN
         IF ~skip /\ SyncTbo_install_view_panics(s.tbo, view.previous_view)
         THEN SyncStatus("Panic", s)
         ELSE IF view_leader(view.seq, view.members) = s.node_id /\ can_process(tbo.stop_data)
         THEN SyncStatus("true",
                  [t EXCEPT !.phase = SyncPhase("StoppingData", 0),
                            !.tbo = SyncTbo_install_next_view(@, view.seq, view.members)])
         ELSE IF can_process(tbo.sync)
         THEN SyncStatus("true",
                  [t EXCEPT !.phase = SyncPhase("Syncing", 0),
                            !.tbo = SyncTbo_install_next_view(@, view.seq, view.members)])
         ELSE IF SyncTbo_install_view_panics(tbo, view.seq)
         THEN SyncStatus("Panic", s)
         ELSE SyncStatus("false",
                  [t EXCEPT !.tbo = SyncTbo_install_view(@, view.seq, view.members)])
    ELSE IF SyncTbo_install_view_panics(s.tbo, view.seq)
    THEN SyncStatus("Panic", s)
    ELSE SyncStatus("false",
             [s EXCEPT !.tbo = SyncTbo_install_view(@, view.seq, view.members),
                       !.phase = IF SyncTbo_install_view_ok(s.tbo, view.seq)
                                 THEN @ ELSE SyncPhase("Init", 0)])

\* The number of messages the tbo queue of a Synchronizer holds.
SyncQueued(s) == SumLen(s.tbo.stop) + SumLen(s.tbo.stop_data) + SumLen(s.tbo.sync)

(***************************************************************************)
(* The calls on the windowed Consensus.                                    *)
(***************************************************************************)
MsgSeqs == 0..(MaxSeq + 1)
\* The peers whose messages reach this replica: the leader and one follower.
Peers == {Members[1], Members[3]}
ConsensusMessages ==
    [from : Peers, seq : MsgSeqs, view : Views, kind : Kinds, digest : ConsDigests]

NoVotes == [k \in {"Prepare", "Commit"} |-> {}]

\* The single-instance Consensus is not run.
OldIdle ==
    /\ old = Consensus_new(0)
    /\ old_voted = NoVotes

\* The windowed Consensus is not run.
ConsIdle ==
    /\ cons = new_replica(Members[2], CurrentView, 0, 1)
    /\ finalized = <<>>

\* An id that no member of the quorum has.
NoNode == Len(Members)

\* The four replicas are not run.
SysIdle ==
    /\ replicas = [n \in Nodes |-> Consensus_new(0)]
    /\ net = {}
    /\ crashed = NoNode

\* The Synchronizer is not run.
SyncIdle ==
    /\ sync = Synchronizer_new(Members[2], CurrentView)
    /\ view_changes = <<>>
    /\ stops_sent = 0
    /\ joins_seen = {}
    /\ joins_sent = {}

\* No message was queued in the TBOQueue that stands on its own.
NoQueued == [k \in Kinds |-> [s \in 0..MaxOldSeq |-> <<>>]]

\* The TBOQueue that stands on its own is not used.
TboIdle ==
    /\ tboq = TBOQueue_new_impl(0)
    /\ queued = NoQueued

\* No predicate was applied.
NoAnswer == [op |-> "none"]

\* The predicates of the view change are not applied.
SndIdle ==
    /\ collected = <<>>
    /\ answered = NoAnswer

(***************************************************************************)
(* The collaborative state transfer (febft-state-transfer/src/lib.rs).     *)
(***************************************************************************)
\* config.timeout_duration, in units of itself.
base_timeout == 1

\* ReplyStateCid(None), and the RecoveryState of a message that carries none.
NoCid == -1
NoState == [seq |-> -1, digest |-> NoDigest]

\* A RecoveryState: the sequence number and the digest of its checkpoint.
RecoveryState(seq, digest) == [seq |-> seq, digest |-> digest]

CstPhase(tag, i) == [tag |-> tag, i |-> i]

\* CheckpointState: None, Partial {seq}, PartialWithEarlier {seq, earlier} and
\* Complete(checkpoint); seq is the one of the checkpoint begun, earlier the
\* RecoveryState of the checkpoint completed.
CheckpointState(tag, seq, earlier) == [tag |-> tag, seq |-> seq, earlier |-> earlier]

CheckpointNone == CheckpointState("None", -1, NoState)

\* Orderable for CheckpointState
checkpoint_sequence_number(cs) ==
    IF cs.tag \in {"None", "Partial"} THEN 0 ELSE cs.earlier.seq

\* CollabStateTransfer::new; waiting holds the requests of
\* WaitingCheckpoint.
CollabStateTransfer_new ==
    [curr_seq |-> 0, current_checkpoint_state |-> CheckpointNone,
     curr_timeout |-> base_timeout, received_states |-> <<>>, received_state_ids |-> <<>>,
     phase |-> CstPhase("Init", 0), waiting |-> {}]

\* CstStatus; seq is the one of SeqNo and state the one of State.
CstStatus(status, c) == [status |-> status, c |-> c, seq |-> -1, state |-> NoState]

\* request_latest_consensus_seq_no
request_latest_consensus_seq_no(c) ==
    [c EXCEPT !.received_state_ids = <<>>, !.curr_seq = SeqNext(@),
              !.phase = CstPhase("ReceivingCid", 0), !.waiting = {}]

\* CollabStateTransfer::request_latest_state
request_latest_state(c) ==
    [c EXCEPT !.received_states = <<>>, !.curr_seq = SeqNext(@),
              !.phase = CstPhase("ReceivingState", 0), !.waiting = {}]

\* A handle_app_state_requested that begins a checkpoint over a partial one.
handle_app_state_requested_anew(c, seq) ==
    CASE c.current_checkpoint_state.tag \in {"None", "Partial"} ->
           [c EXCEPT !.current_checkpoint_state = CheckpointState("Partial", seq, NoState)]
      [] OTHER ->
           [c EXCEPT !.current_checkpoint_state =
                         CheckpointState("PartialWithEarlier", seq, @.earlier)]

\* The ExecutionResult of handle_app_state_requested.
handle_app_state_requested_result(c) ==
    IF c.current_checkpoint_state.tag \in {"None", "Complete"} THEN "BeginCheckpoint" ELSE "Nil"

\* handle_app_state_requested
handle_app_state_requested(c, seq) ==
    CASE c.current_checkpoint_state.tag = "None" ->
           [c EXCEPT !.current_checkpoint_state = CheckpointState("Partial", seq, NoState)]
      [] c.current_checkpoint_state.tag = "Complete" ->
           [c EXCEPT !.current_checkpoint_state =
                         CheckpointState("PartialWithEarlier", seq, @.earlier)]
      [] OTHER -> c

\* A request that waits for the checkpoint, and the ReplyState that answers
\* a request with a checkpoint.
StateRequest(from, seq) == [from |-> from, seq |-> seq]
StateReply(to, seq, state) == [to |-> to, seq |-> seq, state |-> state]

\* The checkpoint that is sent back: the one completed, or the earlier one.
has_checkpoint(c) == c.current_checkpoint_state.tag \in {"PartialWithEarlier", "Complete"}

\* process_request_state: the state is sent back if a checkpoint is there,
\* else the request waits for it.
process_request_state(c, m) ==
    CASE c.phase.tag = "WaitingCheckpoint" ->
           [c EXCEPT !.waiting = @ \cup {StateRequest(m.from, m.seq)}]
      [] c.phase.tag # "Init" -> c
      [] has_checkpoint(c) -> c
      [] OTHER -> [c EXCEPT !.phase = CstPhase("WaitingCheckpoint", 0),
                            !.waiting = {StateRequest(m.from, m.seq)}]

\* The ReplyState process_request_state sends.
process_request_state_replies(c, m) ==
    IF c.phase.tag = "Init" /\ has_checkpoint(c)
    THEN {StateReply(m.from, m.seq, c.current_checkpoint_state.earlier)}
    ELSE {}

\* The request of the highest sequence number of each sender.
latest_requests(reqs) ==
    {r \in reqs : \A o \in reqs : o.from = r.from => o.seq <= r.seq}

\* process_pending_state_requests: the latest request of each sender is
\* processed from the Init phase.
process_pending_state_requests(c) ==
    IF c.phase.tag # "WaitingCheckpoint" THEN [c EXCEPT !.phase = CstPhase("Init", 0)]
    ELSE IF c.waiting = {} \/ has_checkpoint(c)
    THEN [c EXCEPT !.phase = CstPhase("Init", 0), !.waiting = {}]
    ELSE [c EXCEPT !.phase = CstPhase("WaitingCheckpoint", 0),
                   !.waiting = latest_requests(@)]

\* The ReplyState process_pending_state_requests sends.
process_pending_state_requests_replies(c) ==
    IF c.phase.tag = "WaitingCheckpoint" /\ has_checkpoint(c)
    THEN {StateReply(r.from, r.seq, c.current_checkpoint_state.earlier) :
             r \in latest_requests(c.waiting)}
    ELSE {}

\* finalize_checkpoint: the checkpoint begun is complete, or an error.
finalize_checkpoint(c, digest) ==
    IF c.current_checkpoint_state.tag \in {"Partial", "PartialWithEarlier"}
    THEN [err |-> FALSE,
          c |-> [c EXCEPT !.current_checkpoint_state =
                    CheckpointState("Complete", @.seq, RecoveryState(@.seq, digest))]]
    ELSE [err |-> TRUE, c |-> c]

\* finalize_checkpoint, then process_message(CstProgress::Nil) if the
\* checkpoint was waited for (handle_state_received_from_app).
handle_state_received_from_app(c, digest) ==
    LET r == finalize_checkpoint(c, digest) IN
    IF ~r.err /\ r.c.phase.tag = "WaitingCheckpoint"
    THEN process_pending_state_requests(r.c)
    ELSE r.c

\* The ReplyState handle_state_received_from_app sends.
handle_state_received_from_app_replies(c, digest) ==
    LET r == finalize_checkpoint(c, digest) IN
    IF r.err THEN {} ELSE process_pending_state_requests_replies(r.c)

\* received_state_ids with a ReplyStateCid(Some((cid, digest))) counted.
count_state_cid(ids, cid, digest) ==
    LET entry == IF digest \in DOMAIN ids THEN ids[digest] ELSE [cid |-> cid, count |-> 0]
        counted == IF cid > entry.cid THEN [cid |-> cid, count |-> 1]
                   ELSE IF cid = entry.cid THEN [entry EXCEPT !.count = @ + 1]
                   ELSE entry
    IN [d \in (DOMAIN ids) \cup {digest} |-> IF d = digest THEN counted ELSE ids[d]]

\* received_states with the state of a ReplyState counted: of the states of
\* one digest the one of the highest sequence number is kept.
count_state(states, state) ==
    LET counted ==
            IF state.digest \in DOMAIN states
            THEN [seq |-> IF state.seq > states[state.digest].seq
                          THEN state.seq ELSE states[state.digest].seq,
                  count |-> states[state.digest].count + 1]
            ELSE [seq |-> state.seq, count |-> 1]
    IN [d \in (DOMAIN states) \cup {state.digest} |->
           IF d = state.digest THEN counted ELSE states[d]]

\* The digest that was counted most often.
most_counted(counts) ==
    CHOOSE d \in DOMAIN counts : \A e \in DOMAIN counts : counts[e].count <= counts[d].count

\* process_message, the arm of ProtoPhase::ReceivingCid(i)
cst_ReceivingCid(c, m) ==
    LET i == c.phase.i + 1
        ids == IF m.cid = NoCid THEN c.received_state_ids
               ELSE count_state_cid(c.received_state_ids, m.cid, m.digest)
        t == [c EXCEPT !.received_state_ids = ids]
        u == [t EXCEPT !.curr_timeout = base_timeout]
    IN
    CASE m.seq # c.curr_seq -> CstStatus("Running", c)
      [] m.kind # "ReplyStateCid" -> CstStatus("Running", c)
      [] i < ViewQuorum -> CstStatus("Running", [t EXCEPT !.phase = CstPhase("ReceivingCid", i)])
      [] DOMAIN ids = {} ->
           [CstStatus("SeqNo", [u EXCEPT !.phase = CstPhase("Init", 0)]) EXCEPT !.seq = 0]
      [] ids[most_counted(ids)].count >= ViewQuorum ->
           [CstStatus("SeqNo", [u EXCEPT !.phase = CstPhase("Init", 0)])
               EXCEPT !.seq = ids[most_counted(ids)].cid]
      [] OTHER -> CstStatus("Running", [u EXCEPT !.phase = CstPhase("ReceivingCid", i)])

\* A test of the count of the matching states that f of them pass.
enough_states_with_f(count) == count >= ViewF

\* Some(ReceivedState { count, state }) if count > f
enough_states(count) == count > ViewF

\* A ReceivingState arm that counts the replies of every request.
cst_ReceivingState_any_seq(c, m) ==
    LET i == c.phase.i + 1
        states == count_state(c.received_states, m.state)
        digest == most_counted(states)
        u == [c EXCEPT !.received_states = <<>>, !.curr_timeout = base_timeout]
    IN
    CASE m.kind # "ReplyState" -> CstStatus("Running", c)
      [] i <= ViewF ->
           CstStatus("Running", [c EXCEPT !.received_states = states,
                                          !.phase = CstPhase("ReceivingState", i)])
      [] enough_states(states[digest].count) ->
           [CstStatus("State", [u EXCEPT !.phase = CstPhase("Init", 0)])
               EXCEPT !.state = RecoveryState(states[digest].seq, digest)]
      [] OTHER -> CstStatus("RequestState", u)

\* process_message, the arm of ProtoPhase::ReceivingState(i)
cst_ReceivingState(c, m) ==
    LET i == c.phase.i + 1
        states == count_state(c.received_states, m.state)
        digest == most_counted(states)
        u == [c EXCEPT !.received_states = <<>>, !.curr_timeout = base_timeout]
    IN
    CASE m.seq # c.curr_seq -> CstStatus("Running", c)
      [] m.kind # "ReplyState" -> CstStatus("Running", c)
      [] i <= ViewF ->
           CstStatus("Running", [c EXCEPT !.received_states = states,
                                          !.phase = CstPhase("ReceivingState", i)])
      [] enough_states(states[digest].count) ->
           [CstStatus("State", [u EXCEPT !.phase = CstPhase("Init", 0)])
               EXCEPT !.state = RecoveryState(states[digest].seq, digest)]
      [] OTHER -> CstStatus("RequestState", u)

\* CollabStateTransfer::process_message on CstProgress::Message(header, m)
cst_process_message(c, m) ==
    CASE c.phase.tag = "WaitingCheckpoint" -> CstStatus("Nil", process_pending_state_requests(c))
      [] c.phase.tag = "Init" -> CstStatus("Nil", c)
      [] c.phase.tag = "ReceivingCid" -> cst_ReceivingCid(c, m)
      [] OTHER -> cst_ReceivingState(c, m)

\* An STResult, and none.
STResult(tag, seq) == [tag |-> tag, seq |-> seq]
NoResult == STResult("none", -1)

\* StateTransferProtocol::process_message: the STResult, the state transfer
\* after it and the SeqNo the discovery has answered, if it has.
StateTransfer_process_message(c, m) ==
    LET r == cst_process_message(c, m)
        running == STResult("StateTransferRunning", -1)
    IN
    CASE m.kind = "RequestStateCid" -> [result |-> running, c |-> c, agreed |-> -1]
      [] m.kind = "RequestState" ->
           [result |-> running, c |-> process_request_state(c, m), agreed |-> -1]
      [] r.status = "State" ->
           [result |-> STResult("StateTransferFinished", r.state.seq), c |-> r.c, agreed |-> -1]
      [] r.status = "SeqNo" ->
           IF checkpoint_sequence_number(r.c.current_checkpoint_state) < r.seq
           THEN [result |-> running, c |-> request_latest_state(r.c), agreed |-> r.seq]
           ELSE [result |-> STResult("StateTransferNotNeeded", r.seq), c |-> r.c,
                 agreed |-> r.seq]
      [] r.status = "RequestStateCid" ->
           [result |-> running, c |-> request_latest_consensus_seq_no(r.c), agreed |-> -1]
      [] r.status = "RequestState" ->
           [result |-> running, c |-> request_latest_state(r.c), agreed |-> -1]
      [] OTHER -> [result |-> running, c |-> r.c, agreed |-> -1]

\* A timed_out that doubles no timeout.
timed_out_same_timeout(c, seq) ==
    IF seq # c.curr_seq THEN CstStatus("Nil", c)
    ELSE LET d == [c EXCEPT !.curr_seq = SeqNext(@)] IN
         CASE c.phase.tag = "ReceivingCid" -> CstStatus("RequestStateCid", d)
           [] c.phase.tag = "ReceivingState" -> CstStatus("RequestState", d)
           [] OTHER -> CstStatus("Nil", d)

\* CollabStateTransfer::timed_out
timed_out(c, seq) ==
    IF seq # c.curr_seq THEN CstStatus("Nil", c)
    ELSE LET d == [c EXCEPT !.curr_seq = SeqNext(@)] IN
         CASE c.phase.tag = "ReceivingCid" ->
                CstStatus("RequestStateCid", [d EXCEPT !.curr_timeout = @ * 2])
           [] c.phase.tag = "ReceivingState" ->
                CstStatus("RequestState", [d EXCEPT !.curr_timeout = @ * 2])
           [] OTHER -> CstStatus("Nil", d)

\* cst_request_timed_out: whether the request is made again, and the state
\* transfer after the call.
cst_request_timed_out(c, seq) ==
    LET r == timed_out(c, seq) IN
    CASE r.status = "RequestStateCid" ->
           [retry |-> TRUE, c |-> request_latest_consensus_seq_no(r.c)]
      [] r.status = "RequestState" -> [retry |-> TRUE, c |-> request_latest_state(r.c)]
      [] OTHER -> [retry |-> FALSE, c |-> r.c]

\* The state transfer is not run.
CstIdle ==
    /\ cst = CollabStateTransfer_new
    /\ st_result = NoResult
    /\ agreed_seq = -1
    /\ replies_seen = <<>>
    /\ backoff = 0
    /\ buffered = {}

ConsInit ==
    /\ \E w \in Watermarks : cons = new_replica(Members[2], CurrentView, 0, w)
    /\ finalized = <<>>
    /\ OldIdle
    /\ SyncIdle
    /\ SysIdle
    /\ TboIdle
    /\ SndIdle
    /\ CstIdle

ConsQueue ==
    \E m \in ConsensusMessages :
        LET c == consensus_queue(cons, m) IN
        /\ Buffered(c) <= MaxBuf
        /\ cons' = c
        /\ UNCHANGED <<finalized, old_vars, sync_vars, sys_vars, tbo_vars, snd_vars, cst_vars>>

\* poll, and the replica processes the message poll hands back.
ConsPoll ==
    LET r == consensus_poll(cons) IN
    /\ cons' = IF r.status = "NextMessage"
               THEN consensus_process_message(r.c, r.msg).c
               ELSE r.c
    /\ UNCHANGED <<finalized, old_vars, sync_vars, sys_vars, tbo_vars, snd_vars, cst_vars>>

ConsProcessMessage ==
    \E m \in ConsensusMessages :
        LET r == consensus_process_message(cons, m) IN
        /\ Buffered(r.c) <= MaxBuf
        /\ cons' = r.c
        /\ UNCHANGED <<finalized, old_vars, sync_vars, sys_vars, tbo_vars, snd_vars, cst_vars>>

ConsFinalize ==
    LET r == consensus_finalize(cons, CurrentView) IN
    /\ r.some => cons.seq_no < MaxSeq
    /\ cons' = r.c
    /\ finalized' = IF r.some THEN Append(finalized, r.batch) ELSE finalized
    /\ UNCHANGED <<old_vars, sync_vars, sys_vars, tbo_vars, snd_vars, cst_vars>>

ConsInstallSequenceNumber ==
    \E s \in MsgSeqs :
        /\ cons' = install_sequence_number(cons, s)
        /\ UNCHANGED <<finalized, old_vars, sync_vars, sys_vars, tbo_vars, snd_vars, cst_vars>>

ConsNext ==
    \/ ConsQueue
    \/ ConsPoll
    \/ ConsProcessMessage
    \/ ConsFinalize
    \/ ConsInstallSequenceNumber

SpecCons == ConsInit /\ [][ConsNext]_vars

(***************************************************************************)
(* The calls on the single-instance Consensus.                             *)
(***************************************************************************)
\* The node that runs the single-instance Consensus, a follower of the view.
OldId == Members[2]
OldSeqs == 0..MaxOldSeq
OldMessages ==
    [from : Peers, seq : OldSeqs, kind : {"PrePrepare"}, sig : ConsDigests]
    \cup [from : Peers, seq : OldSeqs, kind : {"Prepare", "Commit"}, sig : {NoDigest}]

\* The history of counted votes after process_message took c to r.c on m.
Voted(voted, c, r, m) ==
    IF c.phase.tag \in {"Preparing", "Committing"} /\ r.c.phase # c.phase
       /\ m.kind \in {"Prepare", "Commit"}
    THEN [voted EXCEPT ![m.kind] = @ \cup {m.from}]
    ELSE voted

OldInit ==
    /\ old = Consensus_new(0)
    /\ old_voted = NoVotes
    /\ ConsIdle
    /\ SyncIdle
    /\ SysIdle
    /\ TboIdle
    /\ SndIdle
    /\ CstIdle

OldProcessMessage ==
    \E m \in OldMessages :
        LET r == Consensus_process_message(old, m, OldId) IN
        /\ Queued_count(r.c) <= MaxQueued
        /\ old' = r.c
        /\ old_voted' = Voted(old_voted, old, r, m)
        /\ UNCHANGED <<cons_vars, sync_vars, sys_vars, tbo_vars, snd_vars, cst_vars>>

\* poll, and what the replica does with its answer: it leaves Init on
\* ProposeAndRecv and processes the message of a NextMessage.
OldPoll ==
    LET p == Consensus_poll(old) IN
    /\ CASE p.status = "ProposeAndRecv" ->
              /\ old' = advance_init_phase(p.c)
              /\ UNCHANGED old_voted
         [] p.status = "NextMessage" ->
              LET r == Consensus_process_message(p.c, p.m, OldId) IN
              /\ old' = r.c
              /\ old_voted' = Voted(old_voted, p.c, r, p.m)
         [] OTHER ->
              /\ old' = p.c
              /\ UNCHANGED old_voted
    /\ UNCHANGED <<cons_vars, sync_vars, sys_vars, tbo_vars, snd_vars, cst_vars>>

OldSignal ==
    /\ old' = [old EXCEPT !.tbo = TBOQueue_signal(@)]
    /\ UNCHANGED <<old_voted, cons_vars, sync_vars, sys_vars, tbo_vars, snd_vars, cst_vars>>

\* next_instance is called once the instance is decided.
OldNextInstance ==
    /\ old.phase.tag = "Executing"
    /\ old.tbo.curr_seq < MaxOldSeq
    /\ old' = Consensus_next_instance(old)
    /\ UNCHANGED <<old_voted, cons_vars, sync_vars, sys_vars, tbo_vars, snd_vars, cst_vars>>

OldNext ==
    \/ OldProcessMessage
    \/ OldPoll
    \/ OldSignal
    \/ OldNextInstance

SpecOld == OldInit /\ [][OldNext]_vars

(***************************************************************************)
(* The calls on the Synchronizer.                                          *)
(***************************************************************************)
\* A proof with a quorum of signed PREPAREs and COMMITs of its digest.
SignedProof(seq, digest) ==
    LET votes == [i \in 1..ViewQuorum |-> StoredVote(digest, TRUE)]
    IN Proof(seq, digest, votes, votes)

\* What a replica reports in its STOP-DATA: nothing prepared; D1 prepared by a
\* quorum and written; a faulty replica that claims a quorum of PREPAREs in a
\* later view, and one that has decided instance 2 besides.
SyncCollects ==
    {CollectData(0, NoPair, <<>>, NoProof),
     CollectData(0, ViewDecisionPair(0, "D1"), <<ViewDecisionPair(0, "D1")>>, NoProof),
     CollectData(0, ViewDecisionPair(1, "D2"), <<>>, NoProof),
     CollectData(3, ViewDecisionPair(1, "D2"), <<>>, SignedProof(2, "D1"))}

SyncSeqs == 1..(MaxView + 1)
\* The collects of a SYNC: the three members other than the old leader report
\* D1 prepared, or that they have decided instance 2.
SyncLeaderCollects ==
    {[n \in Nodes \ {ViewLeader(CurrentView)} |-> c] :
        c \in {x \in SyncCollects :
                  x.quorum_prepares.value = "D1" \/ x.last_proof # NoProof}}

ViewChangeMessages ==
    [from : Nodes \ {ViewLeader(CurrentView)}, seq : SyncSeqs, kind : {"Stop"},
     collect : {NoCollect},
     proposed : {NoDigest}, collects : {<<>>}]
    \cup [from : Nodes \ {ViewLeader(CurrentView)}, seq : SyncSeqs, kind : {"StopData"},
          collect : SyncCollects,
          proposed : {NoDigest}, collects : {<<>>}]
    \cup [from : {ViewLeader(v) : v \in SyncSeqs}, seq : SyncSeqs, kind : {"Sync"},
          collect : {NoCollect}, proposed : Digests, collects : SyncLeaderCollects]

\* The batch forged from the pending requests of the new leader.
PendingBatches == Digests \cup {EmptyBatch}

SyncInit ==
    /\ \E id \in {Members[2], Members[3]} : sync = Synchronizer_new(id, CurrentView)
    /\ view_changes = <<>>
    /\ stops_sent = 0
    /\ joins_seen = {}
    /\ joins_sent = {}
    /\ ConsIdle
    /\ OldIdle
    /\ SysIdle
    /\ TboIdle
    /\ SndIdle
    /\ CstIdle

\* The Synchronizer after a call that answered r.
SyncAfter(r) ==
    /\ r.s.tbo.view <= MaxView
    /\ r.s.tbo.next_view <= MaxView
    /\ SyncQueued(r.s) <= MaxSyncBuf
    /\ sync' = r.s
    /\ view_changes' = IF r.final # NoFinal THEN Append(view_changes, r.final)
                       ELSE view_changes
    /\ stops_sent' = stops_sent + r.stops
    /\ UNCHANGED <<joins_seen, joins_sent>>

\* The state transfer is over and poll tells to resume the view change.
SyncResumeViewChange ==
    /\ sync.tbo.view < MaxView
    /\ sync_poll(sync).status = "ResumeViewChange"
    /\ SyncAfter(resume_view_change(sync, 0))
    /\ UNCHANGED <<cons_vars, old_vars, sys_vars, tbo_vars, snd_vars, cst_vars>>

\* Requests timed out on this replica.
SyncBeginViewChange ==
    /\ sync.tbo.view < MaxView
    /\ stops_sent + begin_view_change_stops(sync, TRUE) <= MaxStops
    /\ sync' = begin_view_change(sync, TRUE)
    /\ stops_sent' = stops_sent + begin_view_change_stops(sync, TRUE)
    /\ UNCHANGED <<view_changes, joins_seen, joins_sent, cons_vars, old_vars, sys_vars, tbo_vars,
                   snd_vars, cst_vars>>

\* The batches the pending requests can make when s processes m: they are
\* collected only once a quorum of STOP-DATA is there.
pending_batches(s, m) ==
    IF s.phase.tag = "StoppingData" /\ m.kind = "StopData" THEN PendingBatches
    ELSE {EmptyBatch}

SyncProcessMessage ==
    /\ sync.tbo.view < MaxView
    /\ \E m \in ViewChangeMessages :
         \E p \in pending_batches(sync, m), snd \in sound_answers(sync, m) :
             SyncAfter(sync_process_message(sync, m, p, snd))
    /\ UNCHANGED <<cons_vars, old_vars, sys_vars, tbo_vars, snd_vars, cst_vars>>

\* poll, and the replica processes the message poll hands back.
SyncPoll ==
    LET r == sync_poll(sync) IN
    /\ sync.tbo.view < MaxView
    /\ r.status # "ResumeViewChange"
    /\ IF r.status = "NextMessage"
       THEN \E p \in pending_batches(r.s, r.m), snd \in sound_answers(r.s, r.m) :
                SyncAfter(sync_process_message(r.s, r.m, p, snd))
       ELSE sync' = r.s /\ UNCHANGED <<view_changes, stops_sent, joins_seen, joins_sent>>
    /\ UNCHANGED <<cons_vars, old_vars, sys_vars, tbo_vars, snd_vars, cst_vars>>

SyncSignal ==
    /\ sync.tbo.view < MaxView
    /\ sync' = [sync EXCEPT !.tbo.get_queue = TRUE]
    /\ UNCHANGED <<view_changes, stops_sent, joins_seen, joins_sent,
                   cons_vars, old_vars, sys_vars, tbo_vars, snd_vars, cst_vars>>

SyncNext ==
    \/ SyncBeginViewChange
    \/ SyncProcessMessage
    \/ SyncPoll
    \/ SyncResumeViewChange
    \/ SyncSignal

SpecSync == SyncInit /\ [][SyncNext]_vars

(***************************************************************************)
(* The Synchronizer of a follower of the views to come, with the quorum    *)
(* join track: join requests of the reconfiguration protocol, the          *)
(* STOP-QUORUM-JOIN of the peers, and the views the state transfer hands.  *)
(***************************************************************************)
\* The node that asks to join the quorum, and the nodes the STOP-QUORUM-JOIN name.
JoinCandidates == {Len(Members)}
JoinNamed == JoinCandidates \cup {Len(Members) + 1}

JoinSeqs == 1..MaxJoinView

\* The members whose messages reach this replica.
JoinSenders == Nodes \ {Members[4]}

\* The STOP and STOP-QUORUM-JOIN of the other members, one of which names a
\* second candidate as well, and the SYNC of the leader of the next view, that
\* reports D1 prepared by the three other members.
JoinMessages ==
    [from : JoinSenders, seq : JoinSeqs, kind : {"Stop"}, node : {NoJoining},
     collect : {NoCollect}, proposed : {NoDigest}, collects : {<<>>}]
    \cup [from : JoinSenders, seq : JoinSeqs, kind : {"StopQuorumJoin"},
          node : JoinCandidates,
          collect : {NoCollect}, proposed : {NoDigest}, collects : {<<>>}]
    \cup [from : {Members[1]}, seq : JoinSeqs, kind : {"StopQuorumJoin"},
          node : JoinNamed \ JoinCandidates,
          collect : {NoCollect}, proposed : {NoDigest}, collects : {<<>>}]
    \cup {[from |-> ViewLeader(v), seq |-> v, kind |-> "Sync", node |-> NoJoining,
           collect |-> NoCollect, proposed |-> "D1",
           collects |-> [n \in Nodes \ {ViewLeader(CurrentView)} |->
                           CollectData(0, ViewDecisionPair(0, "D1"),
                                       <<ViewDecisionPair(0, "D1")>>, NoProof)]] :
              v \in JoinSeqs}

\* The views the state transfer hands over: made by next_view from the one
\* before, or with no previous_view.
JoinViews ==
    {ViewInfo(seq, Members, prev) :
        seq \in 0..MaxJoinView, prev \in {NoView} \cup (0..(MaxJoinView - 1))}
    \ {v \in [seq : 0..MaxJoinView, members : {Members}, previous_view : 0..MaxJoinView] :
          v.previous_view # v.seq - 1}

JoinInit ==
    /\ sync = Synchronizer_new(Members[4], CurrentView)
    /\ view_changes = <<>>
    /\ stops_sent = 0
    /\ joins_seen = {}
    /\ joins_sent = {}
    /\ ConsIdle
    /\ OldIdle
    /\ SysIdle
    /\ TboIdle
    /\ SndIdle
    /\ CstIdle

\* The replica runs: it has not panicked, it is a member of a view of four
\* that is not the last one.
JoinRunning ==
    /\ sync.tbo.view < MaxJoinView
    /\ sync.tbo.members = Members

\* The STOP-QUORUM-JOIN the ViewStopping arm counts when s processes m.
counted_join(s, m) ==
    IF /\ s.phase.tag \in {"ViewStopping", "ViewStopping2"}
       /\ m.kind = "StopQuorumJoin"
       /\ m.seq = SeqNext(s.tbo.view)
    THEN {[seq |-> m.seq, node |-> m.node, from |-> m.from]}
    ELSE {}

\* The Synchronizer after a call that answered r and counted the STOP-QUORUM-JOIN seen.
JoinAfter(r, seen) ==
    /\ joins_seen' = joins_seen \cup seen
    /\ UNCHANGED joins_sent
    /\ r.status # "Panic"
    /\ r.s.tbo.view <= MaxJoinView
    /\ r.s.tbo.next_view <= MaxJoinView
    /\ SyncQueued(r.s) <= MaxJoinBuf
    /\ sync' = r.s
    /\ view_changes' = IF r.final # NoFinal THEN Append(view_changes, r.final)
                       ELSE view_changes
    /\ stops_sent' = stops_sent + r.stops

\* The reconfiguration protocol notifies the replica that a node asks to join.
JoinStartJoinQuorum ==
    /\ JoinRunning
    /\ \E node \in JoinCandidates :
         LET r == start_join_quorum(sync, node) IN
         /\ r.s.tbo.view <= MaxJoinView
         /\ sync' = r.s
         /\ joins_sent' = IF r.joins > 0
                          THEN joins_sent \cup {[seq |-> SeqNext(sync.tbo.view), node |-> node]}
                          ELSE joins_sent
         /\ UNCHANGED <<view_changes, stops_sent, joins_seen>>
    /\ UNCHANGED <<cons_vars, old_vars, sys_vars, tbo_vars, snd_vars, cst_vars>>

\* Requests timed out on this replica.
JoinBeginViewChange ==
    /\ JoinRunning
    /\ JoinAfter([SyncStatus("Running", begin_view_change(sync, TRUE))
                     EXCEPT !.stops = begin_view_change_stops(sync, TRUE)], {})
    /\ UNCHANGED <<cons_vars, old_vars, sys_vars, tbo_vars, snd_vars, cst_vars>>

JoinProcessMessage ==
    /\ JoinRunning
    /\ \E m \in JoinMessages :
         \E snd \in sound_answers(sync, m) :
             JoinAfter(sync_process_message(sync, m, EmptyBatch, snd), counted_join(sync, m))
    /\ UNCHANGED <<cons_vars, old_vars, sys_vars, tbo_vars, snd_vars, cst_vars>>

\* poll, and the replica processes the message poll hands back.
JoinPoll ==
    LET r == sync_poll(sync) IN
    /\ JoinRunning
    /\ r.status # "ResumeViewChange"
    /\ IF r.status = "NextMessage"
       THEN \E snd \in sound_answers(r.s, r.m) :
                JoinAfter(sync_process_message(r.s, r.m, EmptyBatch, snd),
                          counted_join(r.s, r.m))
       ELSE sync' = r.s /\ UNCHANGED <<view_changes, stops_sent, joins_seen, joins_sent>>
    /\ UNCHANGED <<cons_vars, old_vars, sys_vars, tbo_vars, snd_vars, cst_vars>>

JoinSignal ==
    /\ JoinRunning
    /\ sync' = [sync EXCEPT !.tbo.get_queue = TRUE]
    /\ UNCHANGED <<view_changes, stops_sent, joins_seen, joins_sent,
                   cons_vars, old_vars, sys_vars, tbo_vars, snd_vars, cst_vars>>

\* The state transfer hands a view over to a replica that runs no view change:
\* the messages it was sent meanwhile wait in its tbo queue.
JoinReceivedView ==
    /\ JoinRunning
    /\ sync.phase.tag = "Init"
    /\ \E view \in JoinViews : JoinAfter(received_view_from_state_transfer(sync, view), {})
    /\ UNCHANGED <<cons_vars, old_vars, sys_vars, tbo_vars, snd_vars, cst_vars>>

JoinNext ==
    \/ JoinStartJoinQuorum
    \/ JoinBeginViewChange
    \/ JoinProcessMessage
    \/ JoinPoll
    \/ JoinSignal
    \/ JoinReceivedView

SpecJoin == JoinInit /\ [][JoinNext]_vars

(***************************************************************************)
(* The state transfer of one replica: it is asked for the latest state,    *)
(* receives the messages of the other replicas, which may hold anything,   *)
(* and the timeouts of its requests; the application makes checkpoints.    *)
(***************************************************************************)
CstSenders == Nodes \ {Members[4]}
CstDigests == {"S1", "S2"}
CstSeqs == 1..MaxCstSeq

CstMessage(kind, seq, from, cid, digest, state) ==
    [kind |-> kind, seq |-> seq, from |-> from, cid |-> cid, digest |-> digest,
     state |-> state]

\* The requests of two replicas, one of which asks for the state twice, and
\* the replies of all of them: the ReplyStateCid are blank or of a
\* checkpoint, the ReplyState carry a state.
CstMessages ==
    {CstMessage("RequestStateCid", 1, Members[1], NoCid, NoDigest, NoState)}
    \cup {CstMessage("RequestState", q, Members[1], NoCid, NoDigest, NoState) :
            q \in 1..MaxRequestSeq}
    \cup {CstMessage("RequestState", 1, Members[2], NoCid, NoDigest, NoState)}
    \cup {CstMessage("ReplyStateCid", q, n, NoCid, NoDigest, NoState) :
            q \in CstSeqs, n \in CstSenders}
    \cup {CstMessage("ReplyStateCid", q, n, i, d, NoState) :
            q \in CstSeqs, n \in CstSenders, i \in 1..MaxCid, d \in CstDigests}
    \cup {CstMessage("ReplyState", q, n, NoCid, NoDigest, RecoveryState(i, d)) :
            q \in CstSeqs, n \in CstSenders, i \in 1..MaxCid, d \in CstDigests}

CstInit ==
    /\ ConsIdle
    /\ OldIdle
    /\ SyncIdle
    /\ SysIdle
    /\ TboIdle
    /\ SndIdle
    /\ CstIdle

\* The reply m is one of the request in progress.
counted_reply(c, m) ==
    /\ m.seq = c.curr_seq
    /\ \/ c.phase.tag = "ReceivingCid" /\ m.kind = "ReplyStateCid"
       \/ c.phase.tag = "ReceivingState" /\ m.kind = "ReplyState"

\* With the reply m, replies enough are there for the phase to complete.
enough_replies(c, m) ==
    /\ counted_reply(c, m)
    /\ \/ c.phase.tag = "ReceivingCid" /\ c.phase.i + 1 >= ViewQuorum
       \/ c.phase.tag = "ReceivingState" /\ c.phase.i + 1 > ViewF

\* The RequestState m comes while no state transfer is run and no checkpoint
\* was completed.
found_no_checkpoint(c, m) ==
    /\ m.kind = "RequestState"
    /\ c.phase.tag \in {"Init", "WaitingCheckpoint"}
    /\ c.current_checkpoint_state.tag \in {"None", "Partial"}

\* The states seen with one more.
seen_state(seen, state) ==
    [s \in (DOMAIN seen) \cup {state} |->
        IF s \in DOMAIN seen THEN (IF s = state THEN seen[s] + 1 ELSE seen[s]) ELSE 1]

CstOthersUnchanged == UNCHANGED <<cons_vars, old_vars, sync_vars, sys_vars, tbo_vars, snd_vars>>

CstRequestLatestState ==
    /\ cst.curr_seq < MaxCstSeq
    /\ cst' = request_latest_consensus_seq_no(cst)
    /\ st_result' = NoResult
    /\ agreed_seq' = -1
    /\ replies_seen' = <<>>
    /\ UNCHANGED <<backoff, buffered>>
    /\ CstOthersUnchanged

CstProcessMessage ==
    \E m \in CstMessages :
        LET r == StateTransfer_process_message(cst, m) IN
        /\ cst.phase.i < MaxReplies
        /\ r.c.curr_seq <= MaxCstSeq
        /\ cst' = r.c
        /\ st_result' = r.result
        /\ agreed_seq' = IF r.agreed # -1 THEN r.agreed ELSE agreed_seq
        /\ replies_seen' =
               CASE r.c.curr_seq # cst.curr_seq -> <<>>
                 [] counted_reply(cst, m) /\ m.kind = "ReplyState" ->
                      seen_state(replies_seen, m.state)
                 [] OTHER -> replies_seen
        /\ backoff' = IF enough_replies(cst, m) THEN 0 ELSE backoff
        /\ buffered' = IF found_no_checkpoint(cst, m)
                       THEN buffered \cup {StateRequest(m.from, m.seq)} ELSE buffered
        /\ CstOthersUnchanged

CstTimedOut ==
    \E seq \in CstSeqs :
        LET r == cst_request_timed_out(cst, seq) IN
        /\ seq <= cst.curr_seq
        /\ r.c.curr_seq <= MaxCstSeq
        /\ cst' = r.c
        /\ replies_seen' = IF r.retry THEN <<>> ELSE replies_seen
        /\ backoff' = IF seq = cst.curr_seq /\ cst.phase.tag \in {"ReceivingCid", "ReceivingState"}
                      THEN backoff + 1 ELSE backoff
        /\ UNCHANGED <<st_result, agreed_seq, buffered>>
        /\ CstOthersUnchanged

\* The application is asked for a checkpoint of a sequence number past the
\* one of the checkpoint it has made last.
CstAppStateRequested ==
    \E seq \in 1..MaxCid :
        /\ seq > checkpoint_sequence_number(cst.current_checkpoint_state)
        /\ cst' = handle_app_state_requested(cst, seq)
        /\ UNCHANGED <<st_result, agreed_seq, replies_seen, backoff, buffered>>
        /\ CstOthersUnchanged

CstStateReceivedFromApp ==
    /\ cst' = handle_state_received_from_app(cst, "S1")
    /\ buffered' = IF cst.current_checkpoint_state.tag \in {"Partial", "PartialWithEarlier"}
                   THEN {} ELSE buffered
    /\ UNCHANGED <<st_result, agreed_seq, replies_seen, backoff>>
    /\ CstOthersUnchanged

CstNext ==
    \/ CstRequestLatestState
    \/ CstProcessMessage
    \/ CstTimedOut
    \/ CstAppStateRequested
    \/ CstStateReceivedFromApp

SpecCst == CstInit /\ [][CstNext]_vars

(***************************************************************************)
(* The predicates of the view change applied to the STOP-DATA a new leader *)
(* has collected, or a SYNC carries: highest_proof and normalized_collects,*)
(* then binds and sound (sync/mod.rs, after Cachin's 'Yet Another Visit to *)
(* Paxos').  The collects come from the other replicas, so they may hold   *)
(* anything.                                                               *)
(***************************************************************************)
\* The last proofs reported.  The PREPAREs or the COMMITs of a proof are a
\* quorum of signed votes (full); one vote short of it (short); the last vote
\* not signed (unsigned); or the last vote of another digest (other).  The
\* proofs are complete ones of either digest, and ones of D1 whose PREPAREs or
\* COMMITs are not a quorum.
SndProofs ==
    LET Votes(n, digest, signed) == [i \in 1..n |-> StoredVote(digest, signed)]
        full(digest) == SignedProof(0, digest).commits
        short == Votes(ViewQuorum - 1, "D1", TRUE)
        unsigned == short \o Votes(1, "D1", FALSE)
        other == short \o Votes(1, "D2", TRUE)
    IN {NoProof}
       \cup {SignedProof(s, d) : s \in 0..MaxProofSeq, d \in Digests}
       \cup {Proof(s, "D1", short, full("D1")) : s \in 0..MaxProofSeq}
       \cup {Proof(s, "D1", full("D1"), unsigned) : s \in 0..MaxProofSeq}
       \cup {Proof(s, "D1", other, full("D1")) : s \in 0..MaxProofSeq}
       \cup {Proof(s, "D1", full("D1"), short) : s \in 0..MaxProofSeq}

\* Collects that differ by the instance in execution and the last proof.
SndProofCollects ==
    {CollectData(e, NoPair, <<>>, p) : e \in 1..(MaxProofSeq + 1), p \in SndProofs}

SndPairs == {ViewDecisionPair(ts, v) : ts \in 0..MaxTs, v \in Digests}

\* Collects of instance 0 that differ by what was prepared and written, one
\* whose write-set lists a value under two timestamps, and one of a later
\* instance.
SndPairCollects ==
    {CollectData(0, qp, ws, NoProof) :
        qp \in {NoPair} \cup SndPairs, ws \in {<<>>} \cup {<<w>> : w \in SndPairs}}
    \cup {CollectData(0, NoPair, <<ViewDecisionPair(0, "D1"), ViewDecisionPair(MaxTs, "D1")>>,
                       NoProof)}
    \cup {CollectData(1, NoPair, <<>>, NoProof)}

\* The replicas a new leader of the next view holds the STOP-DATA of.
SndSenders == Nodes \ {ViewLeader(CurrentView)}

SndInit ==
    /\ \/ collected \in [SndSenders -> SndProofCollects]
       \/ collected \in [SndSenders -> SndPairCollects]
       \/ \E n \in SndSenders : collected \in [SndSenders \ {n} -> SndPairCollects]
    /\ answered = NoAnswer
    /\ ConsIdle
    /\ OldIdle
    /\ SyncIdle
    /\ SysIdle
    /\ TboIdle
    /\ CstIdle

\* The normalized collects sound and binds are applied to.
SndNormalized == normalized_collects(curr_cid_of(highest_proof(collected)), collected)

\* highest_proof, curr_cid and normalized_collects as the quorum branch of
\* StoppingData computes them.
SndHighestProof ==
    /\ answered = NoAnswer
    /\ answered' = [op |-> "highest_proof", proof |-> highest_proof(collected),
                    curr_cid |-> curr_cid_of(highest_proof(collected)),
                    normalized |-> SndNormalized]
    /\ UNCHANGED <<collected, cons_vars, old_vars, sync_vars, sys_vars, tbo_vars, cst_vars>>

\* binds, for every timestamp and value.
SndBinds ==
    /\ answered = NoAnswer
    /\ answered' = [op |-> "binds", normalized |-> SndNormalized,
                    binds |-> [pr \in SndPairs |-> binds(pr.ts, pr.value, SndNormalized)]]
    /\ UNCHANGED <<collected, cons_vars, old_vars, sync_vars, sys_vars, tbo_vars, cst_vars>>

\* sound
SndSound ==
    /\ answered = NoAnswer
    /\ \E snd \in sound(SndNormalized) :
           answered' = [op |-> "sound", normalized |-> SndNormalized, sound |-> snd]
    /\ UNCHANGED <<collected, cons_vars, old_vars, sync_vars, sys_vars, tbo_vars, cst_vars>>

\* highest_proof, curr_cid and sound as a replica in Syncing computes them from
\* the collects of the SYNC, those of the senders in valid being the ones whose
\* signature it finds valid.
SndSyncing ==
    /\ answered = NoAnswer
    /\ \E valid \in SUBSET DOMAIN collected :
           LET signed == signed_collects_among(collected, valid)
               proof == highest_proof(signed)
               curr_cid == curr_cid_of(proof)
           IN \E snd \in sound(normalized_collects(curr_cid, signed)) :
                  answered' = [op |-> "syncing", valid |-> valid, proof |-> proof,
                               curr_cid |-> curr_cid, sound |-> snd]
    /\ UNCHANGED <<collected, cons_vars, old_vars, sync_vars, sys_vars, tbo_vars, cst_vars>>

SndNext ==
    \/ SndHighestProof
    \/ SndBinds
    \/ SndSound
    \/ SndSyncing

SpecSnd == SndInit /\ [][SndNext]_vars

(***************************************************************************)
(* The calls on a TBOQueue on its own: messages are queued, popped from    *)
(* the front bucket, and the queue is advanced to the next instance.       *)
(***************************************************************************)
\* The deque of buckets of a kind of message.
KindDeque(tbo, kind) ==
    CASE kind = "PrePrepare" -> tbo.pre_prepares
      [] kind = "Prepare" -> tbo.prepares
      [] OTHER -> tbo.commits

\* The TBOQueue with the deque of a kind replaced.
WithKindDeque(tbo, kind, deque) ==
    CASE kind = "PrePrepare" -> [tbo EXCEPT !.pre_prepares = deque]
      [] kind = "Prepare" -> [tbo EXCEPT !.prepares = deque]
      [] OTHER -> [tbo EXCEPT !.commits = deque]

\* queue_pre_prepare, queue_prepare or queue_commit, by the kind of m.
TBOQueue_queue(tbo, m) ==
    CASE m.kind = "PrePrepare" -> TBOQueue_queue_pre_prepare(tbo, m)
      [] m.kind = "Prepare" -> TBOQueue_queue_prepare(tbo, m)
      [] OTHER -> TBOQueue_queue_commit(tbo, m)

TboInit ==
    /\ tboq = TBOQueue_new_impl(0)
    /\ queued = NoQueued
    /\ ConsIdle
    /\ OldIdle
    /\ SyncIdle
    /\ SysIdle
    /\ SndIdle
    /\ CstIdle

TboQueueMessage ==
    \E m \in OldMessages :
        LET q == TBOQueue_queue(tboq, m) IN
        /\ SumLen(q.pre_prepares) + SumLen(q.prepares) + SumLen(q.commits) <= MaxQueued
        /\ tboq' = q
        /\ queued' = IF m.seq < tboq.curr_seq THEN queued
                     ELSE [queued EXCEPT ![m.kind][m.seq] = Append(@, m)]
        /\ UNCHANGED <<cons_vars, old_vars, sync_vars, sys_vars, snd_vars, cst_vars>>

TboPopMessage ==
    \E kind \in Kinds :
        LET r == TBOQueue_pop_message(KindDeque(tboq, kind)) IN
        /\ r.some
        /\ tboq' = WithKindDeque(tboq, kind, r.tbo)
        /\ queued' = [queued EXCEPT ![kind][tboq.curr_seq] = Tail(@)]
        /\ UNCHANGED <<cons_vars, old_vars, sync_vars, sys_vars, snd_vars, cst_vars>>

TboNextInstance ==
    /\ tboq.curr_seq <= MaxOldSeq
    /\ tboq' = TBOQueue_next_instance_queue(tboq)
    /\ queued' = [k \in Kinds |-> [queued[k] EXCEPT ![tboq.curr_seq] = <<>>]]
    /\ UNCHANGED <<cons_vars, old_vars, sync_vars, sys_vars, snd_vars, cst_vars>>

TboNext ==
    \/ TboQueueMessage
    \/ TboPopMessage
    \/ TboNextInstance

SpecTbo == TboInit /\ [][TboNext]_vars

(***************************************************************************)
(* Four replicas, each running the single-instance Consensus in its        *)
(* replica loop, and the network between them.  One replica, the leader or *)
(* a follower, is crashed: it is silent from the start.                    *)
(***************************************************************************)
\* node.broadcast(message, 0..n): one copy for every replica, the sender included.
broadcast(from, seq, kind, sig) ==
    {[to |-> n, from |-> from, seq |-> seq, kind |-> kind, sig |-> sig] : n \in Nodes}

\* Consensus::propose: the leader broadcasts the PRE-PREPARE of its sequence number.
Consensus_propose(c, sig, node) ==
    IF node # ViewLeader(CurrentView) THEN {}
    ELSE broadcast(node, c.tbo.curr_seq, "PrePrepare", sig)

\* The messages a replica sends for what process_message answered.
sent(r, node) ==
    IF r.out = "none" THEN {}
    ELSE broadcast(node, r.c.tbo.curr_seq, r.out, NoDigest)

\* What the replica does with a consensus message: process_message,
\* next_instance when the instance is decided, and signal.
adv_consensus(c, m, node) ==
    LET r == Consensus_process_message(c, m, node)
        d == IF r.status = "Decided" THEN Consensus_next_instance(r.c) ELSE r.c
    IN [c |-> [d EXCEPT !.tbo = TBOQueue_signal(@)], sent |-> sent(r, node)]

SysInit ==
    /\ replicas = [n \in Nodes |-> Consensus_new(0)]
    /\ net = {}
    /\ crashed \in Nodes
    /\ ConsIdle
    /\ OldIdle
    /\ SyncIdle
    /\ TboIdle
    /\ SndIdle
    /\ CstIdle

\* poll tells the replica to propose: the leader proposes, and the replica leaves Init.
SysPropose(n) ==
    LET p == Consensus_poll(replicas[n]) IN
    /\ n # crashed
    /\ p.status = "ProposeAndRecv"
    /\ \E sig \in ConsDigests :
         net' = net \cup Consensus_propose(p.c, sig, n)
    /\ replicas' = [replicas EXCEPT ![n] = advance_init_phase(p.c)]
    /\ UNCHANGED crashed

\* poll hands back a message of the TBOQueue, which the replica processes.
SysNextMessage(n) ==
    LET p == Consensus_poll(replicas[n]) IN
    /\ n # crashed
    /\ p.status = "NextMessage"
    /\ LET a == adv_consensus(p.c, p.m, n) IN
       /\ replicas' = [replicas EXCEPT ![n] = a.c]
       /\ net' = net \cup a.sent
    /\ UNCHANGED crashed

\* poll answers Recv: the replica receives a message from the network and processes it.
SysRecv(n) ==
    LET p == Consensus_poll(replicas[n]) IN
    /\ n # crashed
    /\ p.status = "Recv"
    /\ \E w \in net :
         /\ w.to = n
         /\ LET m == [from |-> w.from, seq |-> w.seq, kind |-> w.kind, sig |-> w.sig]
                a == adv_consensus(p.c, m, n)
            IN /\ replicas' = [replicas EXCEPT ![n] = a.c]
               /\ net' = (net \ {w}) \cup a.sent
    /\ UNCHANGED crashed

SysNext ==
    \E n \in Nodes :
        \/ SysPropose(n) /\ UNCHANGED <<cons_vars, old_vars, sync_vars, tbo_vars, snd_vars, cst_vars>>
        \/ /\ SysNextMessage(n)
           /\ UNCHANGED <<cons_vars, old_vars, sync_vars, tbo_vars, snd_vars, cst_vars>>
        \/ SysRecv(n) /\ UNCHANGED <<cons_vars, old_vars, sync_vars, tbo_vars, snd_vars, cst_vars>>

SpecSys == SysInit /\ [][SysNext]_vars

(***************************************************************************)
(* Claims about the windowed Consensus.                                    *)
(***************************************************************************)
Front == Head(cons.decisions)
Tail_decision(c) == c.decisions[Len(c.decisions)]
QueueMessages(d) ==
    {d.message_queue.pre_prepares[i] : i \in 1..Len(d.message_queue.pre_prepares)}
    \cup {d.message_queue.prepares[i] : i \in 1..Len(d.message_queue.prepares)}
    \cup {d.message_queue.commits[i] : i \in 1..Len(d.message_queue.commits)}

\* C1: finalize only returns the batch of the front decision, which is decided
\* and carries sequence seq_no; the batches returned have consecutive sequence
\* numbers; and while the front decision is not finalizeable finalize returns
\* None and leaves seq_no, the decisions and the tbo queue as they were.
C1_FinalizeInOrder ==
    [][/\ finalized' # finalized =>
            /\ is_finalizeable(Front)
            /\ Front.seq = cons.seq_no
            /\ finalized' = Append(finalized, decision_finalize(Front))
            /\ cons'.seq_no = cons.seq_no + 1
            /\ Len(finalized) > 0 =>
                   finalized'[Len(finalized')].seq = finalized[Len(finalized)].seq + 1
       /\ ~is_finalizeable(Front) =>
            /\ ~consensus_finalize(cons, CurrentView).some
            /\ consensus_finalize(cons, CurrentView).c = cons]_vars

\* A second decision was decided and stands at the front after the first was finalized.
C1_Witness ==
    /\ cons.watermark = 2
    /\ Len(finalized) = 1
    /\ is_finalizeable(Front)

\* C2: the deque holds exactly watermark decisions and the decision at
\* position i carries sequence number seq_no + i.
C2_WindowContiguous ==
    /\ Len(cons.decisions) = cons.watermark
    /\ \A i \in 1..Len(cons.decisions) : cons.decisions[i].seq = cons.seq_no + (i - 1)

\* C7: when next_instance brings a sequence into the window, the new tail
\* decision is seeded with the messages buffered for its own sequence number.
C7_TailSeededForOwnSequence ==
    [][cons'.seq_no # cons.seq_no =>
         \A m \in QueueMessages(Tail_decision(cons')) : m.seq = Tail_decision(cons').seq]_vars

\* C10: after install_sequence_number(seq) seq_no equals seq and the watermark
\* decisions are freshly initialised for seq .. seq + watermark - 1.
C10_InstallSequenceNumber ==
    \A s \in MsgSeqs :
        LET c == install_sequence_number(cons, s) IN
        /\ c.seq_no = s
        /\ c.decisions =
             [i \in 1..cons.watermark |-> init_decision(cons.node_id, s + (i - 1), CurrentView)]

(***************************************************************************)
(* Claims about the single-instance Consensus.                             *)
(***************************************************************************)
OwnVotes(kind) ==
    {m \in OldMessages : m.kind = kind /\ m.seq = old.tbo.curr_seq /\ m.from \in old_voted[kind]}

\* C3: a second PREPARE (or COMMIT) from a node whose vote of the phase was
\* already counted is answered with VotedTwice(node) and leaves the count as it is.
C3_VotedTwiceNotCounted ==
    /\ old.phase.tag = "Preparing" =>
         \A m \in OwnVotes("Prepare") :
             LET r == Consensus_process_message(old, m, OldId) IN
             r.status = "VotedTwice" /\ r.c.phase = old.phase
    /\ old.phase.tag = "Committing" =>
         \A m \in OwnVotes("Commit") :
             LET r == Consensus_process_message(old, m, OldId) IN
             r.status = "VotedTwice" /\ r.c.phase = old.phase

\* C4: the instance is past Preparing only when PREPAREs of a quorum of
\* distinct nodes were counted, and decided only when COMMITs of a quorum of
\* distinct nodes were counted.
C4_QuorumOfDistinctVoters ==
    /\ old.phase.tag \in {"Committing", "Executing"} =>
         Cardinality(old_voted["Prepare"]) >= ViewQuorum
    /\ old.phase.tag = "Executing" =>
         Cardinality(old_voted["Commit"]) >= ViewQuorum

PhaseRank(phase) ==
    CASE phase.tag = "Init" -> 0
      [] phase.tag = "PrePreparing" -> 1
      [] phase.tag = "Preparing" -> 2
      [] phase.tag = "Committing" -> 3
      [] OTHER -> 4

\* C8: no step moves the instance to an earlier phase, or lowers the vote
\* count of the phase it is in.
C8_PhaseMonotonic ==
    [][\/ PhaseRank(old'.phase) > PhaseRank(old.phase)
       \/ /\ PhaseRank(old'.phase) = PhaseRank(old.phase)
          /\ old'.phase.i >= old.phase.i]_vars

\* The instance is decided while a PRE-PREPARE that came late waits in the queue.
C8_Witness ==
    /\ old.phase.tag = "Executing"
    /\ SumLen(old.tbo.pre_prepares) > 0

PhaseKind(phase) ==
    CASE phase.tag = "PrePreparing" -> "PrePrepare"
      [] phase.tag = "Preparing" -> "Prepare"
      [] phase.tag = "Committing" -> "Commit"
      [] OTHER -> "none"

PhaseQueue(phase) ==
    CASE phase.tag = "PrePreparing" -> old.tbo.pre_prepares
      [] phase.tag = "Preparing" -> old.tbo.prepares
      [] phase.tag = "Committing" -> old.tbo.commits
      [] OTHER -> <<>>

\* C9: a PREPARE or COMMIT of the instance's own sequence number that comes
\* before the phase that consumes it is pushed at the back of the front
\* bucket of its kind, and poll hands back the front message of the kind the
\* phase consumes: the PRE-PREPARE in PrePreparing, a PREPARE in Preparing, a
\* COMMIT in Committing, each of the instance's own sequence number.
C9_EarlyVotesBuffered ==
    /\ \A m \in OldMessages :
         (/\ m.seq = old.tbo.curr_seq
          /\ \/ m.kind = "Prepare" /\ old.phase.tag \in {"Init", "PrePreparing"}
             \/ m.kind = "Commit" /\ old.phase.tag \in {"Init", "PrePreparing", "Preparing"})
         => LET r == Consensus_process_message(old, m, OldId)
                q == IF m.kind = "Prepare" THEN old.tbo.prepares ELSE old.tbo.commits
                q2 == IF m.kind = "Prepare" THEN r.c.tbo.prepares ELSE r.c.tbo.commits
            IN /\ r.status = "Deciding"
               /\ r.c.phase = old.phase
               /\ Len(q2) >= 1
               /\ q2[1] = Append(IF Len(q) = 0 THEN <<>> ELSE q[1], m)
    /\ LET p == Consensus_poll(old) IN
       /\ p.status = "NextMessage" =>
            /\ p.m.kind = PhaseKind(old.phase)
            /\ p.m.seq = old.tbo.curr_seq
            /\ p.m = Head(PhaseQueue(old.phase)[1])
       /\ (/\ old.tbo.get_queue
           /\ Len(PhaseQueue(old.phase)) > 0
           /\ Len(PhaseQueue(old.phase)[1]) > 0) => p.status = "NextMessage"

\* A PREPARE and a COMMIT that came before the PRE-PREPARE wait in the queue
\* of the instance, which is now in Preparing and signalled.
C9_Witness ==
    /\ old.phase.tag = "Preparing"
    /\ old.tbo.get_queue
    /\ Len(old.tbo.prepares) > 0 /\ Len(old.tbo.prepares[1]) > 0
    /\ Len(old.tbo.commits) > 0 /\ Len(old.tbo.commits[1]) > 0

(***************************************************************************)
(* Claims about the Synchronizer.                                          *)
(***************************************************************************)
\* C5: when the collects of a view change bind a value d (a quorum prepared d
\* in the old view), the value the new leader proposes in its SYNC, to be
\* decided in the new view, is d.
C5_BoundValueProposed ==
    \A i \in 1..Len(view_changes) :
        (/\ sync.node_id = ViewLeader(view_changes[i].view)
         /\ view_changes[i].sound.bound)
        => view_changes[i].proposed = view_changes[i].sound.value

(***************************************************************************)
(* Claims about the four replicas.                                         *)
(***************************************************************************)
\* Every message sent to a correct replica was received and processed, and no
\* correct replica has a step of its loop left to take.
Quiescent ==
    \A n \in Nodes \ {crashed} :
        /\ Consensus_poll(replicas[n]).status = "Recv"
        /\ \A w \in net : w.to # n

\* C6: with four replicas of which at most one is crashed, the leader being
\* correct, once every message sent was delivered every correct replica has
\* decided the sequence number the leader proposed.
C6_EveryCorrectReplicaDecides ==
    (Quiescent /\ crashed # ViewLeader(CurrentView))
    => \A n \in Nodes \ {crashed} : replicas[n].phase.tag = "Executing"

(***************************************************************************)
(* Claims about the routing of the windowed Consensus.                     *)
(***************************************************************************)
\* c and d differ in no decision but the one at position i.
SameDecisionsBut(c, d, i) ==
    /\ Len(d.decisions) = Len(c.decisions)
    /\ \A j \in 1..Len(c.decisions) : j # i => d.decisions[j] = c.decisions[j]

\* What is left of the Consensus c by a call that only routes m at offset i.
RoutedIn(c, d, m, i) ==
    /\ d.seq_no = c.seq_no
    /\ IF i < 0 THEN d = c
       ELSE IF i < c.watermark
       THEN /\ d.tbo_queue = c.tbo_queue
            /\ SameDecisionsBut(c, d, i + 1)
       ELSE /\ d.decisions = c.decisions
            /\ LET b == KindDeque(d.tbo_queue, m.kind)
                   k == i - c.watermark + 1
               IN /\ Len(b) >= k
                  /\ Len(b[k]) > 0
                  /\ b[k][Len(b[k])] = m
            /\ SumLen(KindDeque(d.tbo_queue, m.kind)) = SumLen(KindDeque(c.tbo_queue, m.kind)) + 1

\* C11: queue and process_message route by the offset i of the message from
\* seq_no: behind the window nothing changes and process_message answers
\* Deciding; within the window only decisions[i] is reached, by its own queue
\* or process_message; beyond the window the message is pushed in the tbo
\* queue at the bucket of its sequence and no decision is touched.
C11_RoutedByOffset ==
    \A m \in ConsensusMessages :
        LET i == m.seq - cons.seq_no
            q == consensus_queue(cons, m)
            r == consensus_process_message(cons, m)
        IN /\ RoutedIn(cons, q, m, i)
           /\ RoutedIn(cons, r.c, m, i)
           /\ (i < 0 \/ i >= cons.watermark) => r.status = "Deciding"
           /\ (0 <= i /\ i < cons.watermark) =>
                /\ q.decisions[i + 1] = decision_queue(cons.decisions[i + 1], m)
                /\ r.c.decisions[i + 1] = decision_process_message(cons.decisions[i + 1], m).d
                /\ r.status = decision_process_message(cons.decisions[i + 1], m).status

\* The window of two decisions has moved to sequence 1 and a message of a
\* sequence beyond it waits in the tbo queue.
C11_Witness ==
    /\ cons.watermark = 2
    /\ cons.seq_no = 1
    /\ SumLen(cons.tbo_queue.pre_prepares) + SumLen(cons.tbo_queue.prepares)
         + SumLen(cons.tbo_queue.commits) > 0

(***************************************************************************)
(* Claims about the TBOQueue.                                              *)
(***************************************************************************)
\* The bucket of a deque for the sequence number s, empty when the deque is shorter.
BucketFor(tbo, kind, s) ==
    LET deque == KindDeque(tbo, kind)
        j == s - tbo.curr_seq + 1
    IN IF j <= Len(deque) THEN deque[j] ELSE <<>>

\* C12: a message of a sequence number below curr_seq is dropped; the bucket
\* that stands for a sequence number holds exactly the messages queued for
\* that sequence number and not yet popped, in the order they were queued,
\* and pop_message hands back the first of those of the current sequence.
C12_TboFifoPerSequence ==
    /\ \A m \in OldMessages : m.seq < tboq.curr_seq => TBOQueue_queue(tboq, m) = tboq
    /\ \A kind \in Kinds :
         /\ \A s \in 0..MaxOldSeq :
              s >= tboq.curr_seq => BucketFor(tboq, kind, s) = queued[kind][s]
         /\ Len(KindDeque(tboq, kind)) <= MaxOldSeq - tboq.curr_seq + 1
         /\ LET r == TBOQueue_pop_message(KindDeque(tboq, kind)) IN
            r.some => /\ tboq.curr_seq <= MaxOldSeq
                      /\ r.m = Head(queued[kind][tboq.curr_seq])
                      /\ r.m.seq = tboq.curr_seq

\* Two messages queued for the next sequence number, while the queue stood
\* at sequence 0, are at the front after the queue was advanced.
C12_Witness ==
    /\ tboq.curr_seq = 1
    /\ Len(tboq.prepares) > 0
    /\ Len(tboq.prepares[1]) = 2
    /\ tboq.prepares[1][1] # tboq.prepares[1][2]

(***************************************************************************)
(* Claims about the STOP phase of the Synchronizer.                        *)
(***************************************************************************)
StoppingPhases == {"Stopping", "Stopping2"}

\* The STOP messages of the view after the current one.
NextViewStops == {m \in ViewChangeMessages : m.kind = "Stop" /\ m.seq = SeqNext(sync.tbo.view)}

\* What process_message answers for a message that needs no pending batch.
Processed(m) == sync_process_message(sync, m, EmptyBatch, Unbound(FALSE))

\* C13: in the stopping phases the count is the number of distinct senders of
\* the STOPs counted; a STOP of a sender not yet counted that brings the count
\* to the quorum records next_view as the view after the current one and moves
\* to StoppingData(0) on the leader of that view and to Syncing elsewhere;
\* below the quorum nothing leaves the stopping phases, and a STOP of a sender
\* already counted leaves the count as it is.
C13_StopQuorumInstallsNextView ==
    sync.phase.tag \in StoppingPhases =>
        /\ sync.phase.i = Cardinality(sync.stopped)
        /\ begin_view_change(sync, TRUE).phase.tag \in StoppingPhases
        /\ \A m \in ViewChangeMessages :
             LET r == Processed(m).s
                 fresh == m \in NextViewStops /\ m.from \notin sync.stopped
                 count == Cardinality(sync.stopped \cup {m.from})
             IN /\ (fresh /\ sync.phase.tag = "Stopping2" /\ count >= ViewQuorum) =>
                     /\ r.tbo.next_view = SeqNext(sync.tbo.view)
                     /\ r.phase = IF ViewLeader(SeqNext(sync.tbo.view)) = sync.node_id
                                  THEN SyncPhase("StoppingData", 0)
                                  ELSE SyncPhase("Syncing", 0)
                /\ (fresh /\ count < ViewQuorum) =>
                     /\ r.phase.tag \in StoppingPhases
                     /\ r.phase.i = count
                     /\ r.tbo.next_view = sync.tbo.next_view
                /\ ~fresh =>
                     /\ r.phase = sync.phase
                     /\ r.stopped = sync.stopped
                     /\ r.tbo.next_view = sync.tbo.next_view

\* The new leader has counted a quorum of STOPs and waits for the STOP-DATA.
C13_Witness ==
    /\ sync.phase = SyncPhase("StoppingData", 0)
    /\ sync.tbo.next_view = SeqNext(sync.tbo.view)
    /\ sync.node_id = ViewLeader(sync.tbo.next_view)

\* C14: a replica that has not sent its STOP leaves Stopping only for
\* Stopping2 and broadcasts exactly one STOP as it does; it has left Stopping
\* once it has counted f + 1 senders; and from Stopping2, StoppingData and
\* Syncing no step broadcasts a STOP.
C14_OneStopPerViewChange ==
    [][/\ sync.phase.tag = "Stopping" =>
            /\ sync.phase.i <= ViewF
            /\ IF sync'.phase.tag = "Stopping"
               THEN stops_sent' = stops_sent
               ELSE /\ sync'.phase.tag = "Stopping2"
                    /\ stops_sent' = stops_sent + 1
       /\ sync.phase.tag \in {"Stopping2", "StoppingData", "Syncing"} =>
            /\ stops_sent' = stops_sent
            /\ begin_view_change_stops(sync, TRUE) = 0
            /\ begin_view_change(sync, TRUE) = sync]_vars

\* The replica has counted f + 1 STOPs of its peers and has sent its own.
C14_Witness ==
    /\ sync.phase = SyncPhase("Stopping2", ViewF + 1)
    /\ stops_sent = 1
    /\ sync.node_id \notin sync.stopped

(***************************************************************************)
(* C15                                                                     *)
(***************************************************************************)
\* The signed votes of a digest among the votes of a proof.
SignedVotes(votes, digest) ==
    {i \in 1..Len(votes) : votes[i].signed /\ votes[i].digest = digest}

\* The last proofs of the collects that are complete: a quorum of signed
\* PREPAREs and a quorum of signed COMMITs of the digest of the proof.
CompleteProofs(collects) ==
    {p \in {collects[n].last_proof : n \in DOMAIN collects} \ {NoProof} :
        /\ Cardinality(SignedVotes(p.prepares, p.digest)) >= ViewQuorum
        /\ Cardinality(SignedVotes(p.commits, p.digest)) >= ViewQuorum}

\* C15: with a quorum of STOP-DATA collected, curr_cid is one more than the
\* highest sequence number of the complete last proofs, and 0 when no collect
\* carries one; a collect that executes another instance than curr_cid is None
\* in the normalized collects, and the others are kept as they are.
C15_CurrCidFollowsHighestProof ==
    answered.op = "highest_proof" /\ Cardinality(DOMAIN collected) >= ViewQuorum =>
        LET complete == CompleteProofs(collected) IN
        /\ complete = {} => answered.curr_cid = 0
        /\ complete # {} =>
              /\ \E p \in complete : answered.curr_cid = p.seq + 1
              /\ \A p \in complete : p.seq + 1 <= answered.curr_cid
        /\ DOMAIN answered.normalized = DOMAIN collected
        /\ \A n \in DOMAIN collected :
              answered.normalized[n] =
                  IF collected[n].executing = answered.curr_cid THEN collected[n]
                  ELSE NoCollect

\* The highest complete proof is of instance MaxProofSeq, another collect holds
\* an incomplete proof, one collect executes curr_cid and one does not.
C15_Witness ==
    /\ answered.op = "highest_proof"
    /\ answered.curr_cid = MaxProofSeq + 1
    /\ \E n \in DOMAIN collected :
          collected[n].last_proof \notin CompleteProofs(collected) \cup {NoProof}
    /\ \E n \in DOMAIN collected : answered.normalized[n] = NoCollect
    /\ \E n \in DOMAIN collected : answered.normalized[n] # NoCollect

(***************************************************************************)
(* C16                                                                     *)
(***************************************************************************)
\* C16: highest_proof answers a last proof only if it holds a quorum of signed
\* PREPAREs and a quorum of signed COMMITs of its digest; a proof that does not
\* is skipped, whatever its sequence number, and the answer is of the highest
\* sequence number among the proofs that remain, None only if none remains.
C16_HighestProofIsComplete ==
    answered.op = "highest_proof" =>
        LET complete == CompleteProofs(collected) IN
        /\ answered.proof \in complete \cup {NoProof}
        /\ answered.proof = NoProof <=> complete = {}
        /\ \A p \in complete : p.seq <= answered.proof.seq
        /\ answered.proof # NoProof => answered.curr_cid = answered.proof.seq + 1

\* Two collects report a proof of instance MaxProofSeq, of D1 without a quorum
\* of signed votes and of D2 with one, and the one of D2 is answered.
C16_Witness ==
    /\ answered.op = "highest_proof"
    /\ answered.proof.seq = MaxProofSeq
    /\ answered.proof.digest = "D2"
    /\ answered.curr_cid = MaxProofSeq + 1
    /\ \E n \in DOMAIN collected :
          /\ collected[n].last_proof.seq = MaxProofSeq
          /\ collected[n].last_proof.digest = "D1"
          /\ collected[n].last_proof \notin CompleteProofs(collected)

(***************************************************************************)
(* C17                                                                     *)
(***************************************************************************)
\* The collects of N that are Some and report a quorum of PREPAREs.
Prepared(N) == {n \in DOMAIN N : N[n] # NoCollect /\ N[n].quorum_prepares # NoPair}

\* The entries of the write sets of N, each named by its collect and position.
Writes(N) ==
    {e \in (DOMAIN N) \X (1..2) : N[e[1]] # NoCollect /\ e[2] <= Len(N[e[1]].write_set)}

\* C17: binds(ts, value, N) is true exactly when N holds at least a quorum of
\* collects, some collect has quorum_prepares = (ts, value), at least a quorum
\* of collects have quorum_prepares of a timestamp below ts or equal to
\* (ts, value), and more than f entries (ts', v') of the write sets have
\* ts' >= ts and v' = value.
C17_BindsIffQuorumHighestAndCertified ==
    answered.op = "binds" =>
        LET N == answered.normalized IN
        \A pr \in SndPairs :
            answered.binds[pr] <=>
                /\ Cardinality(DOMAIN N) >= ViewQuorum
                /\ \E n \in Prepared(N) : N[n].quorum_prepares = pr
                /\ Cardinality({n \in Prepared(N) :
                       \/ N[n].quorum_prepares.ts < pr.ts
                       \/ N[n].quorum_prepares = pr}) >= ViewQuorum
                /\ Cardinality({e \in Writes(N) :
                       /\ N[e[1]].write_set[e[2]].ts >= pr.ts
                       /\ N[e[1]].write_set[e[2]].value = pr.value}) > ViewF

\* A pair of timestamp MaxTs binds, one collect of the quorum having prepared
\* at a lower timestamp; a pair of the other value, written once, does not.
C17_Witness ==
    /\ answered.op = "binds"
    /\ \E pr \in SndPairs :
          /\ pr.ts = MaxTs
          /\ answered.binds[pr]
          /\ \E n \in Prepared(answered.normalized) :
                answered.normalized[n].quorum_prepares.ts < pr.ts
          /\ \E other \in SndPairs :
                /\ other.value # pr.value
                /\ ~answered.binds[other]
                /\ certified_value_once(other.ts, other.value, answered.normalized)

(***************************************************************************)
(* C18                                                                     *)
(***************************************************************************)
\* The collects of N that stand for view 0: None, no quorum of PREPAREs, or a
\* quorum of PREPAREs of timestamp zero.
OnViewZero(N) ==
    {n \in DOMAIN N :
        \/ N[n] = NoCollect
        \/ N[n].quorum_prepares = NoPair
        \/ N[n].quorum_prepares.ts = 0}

\* C18: sound answers Bound(d) exactly when some pair (ts, d) binds, d being
\* the value of such a pair; otherwise it answers Unbound(b), b being true
\* exactly when N holds at least a quorum of collects and at least a quorum of
\* them are None, without quorum_prepares, or with quorum_prepares of timestamp 0.
C18_SoundBoundOrUnbound ==
    answered.op = "sound" =>
        LET N == answered.normalized
            binding == {pr \in SndPairs : binds(pr.ts, pr.value, N)}
        IN
        /\ answered.sound.bound <=> binding # {}
        /\ answered.sound.bound =>
              /\ \E pr \in binding : answered.sound = Bound(pr.value)
        /\ ~answered.sound.bound =>
              answered.sound =
                  Unbound(/\ Cardinality(DOMAIN N) >= ViewQuorum
                          /\ Cardinality(OnViewZero(N)) >= ViewQuorum)

\* Nothing binds and sound answers Unbound(true): of the quorum, one collect
\* is None, one prepared at timestamp zero and one did not prepare.
C18_Witness ==
    /\ answered.op = "sound"
    /\ answered.sound = Unbound(TRUE)
    /\ \E n \in DOMAIN answered.normalized : answered.normalized[n] = NoCollect
    /\ \E n \in Prepared(answered.normalized) :
          answered.normalized[n].quorum_prepares.ts = 0
    /\ \E n \in SomeCollects(answered.normalized) :
          answered.normalized[n].quorum_prepares = NoPair

(***************************************************************************)
(* C19                                                                     *)
(***************************************************************************)
\* The Synchronizer s finalizes the view change when it processes m: the new
\* leader stores the STOP-DATA that makes a quorum, or a replica in Syncing is
\* handed the SYNC of the new leader.
Finalizing(s, m) ==
    /\ m.seq = s.tbo.next_view
    /\ \/ /\ s.phase.tag = "StoppingData"
          /\ m.kind = "StopData"
          /\ ViewLeader(s.tbo.next_view) = s.node_id
          /\ m.from \notin DOMAIN s.collects
          /\ s.phase.i + 1 >= ViewQuorum
       \/ /\ s.phase.tag = "Syncing"
          /\ m.kind = "Sync"
          /\ m.from = ViewLeader(s.tbo.next_view)

\* The highest proof of the collects the view change is finalized with.
FinalizingProof(s, m) ==
    IF m.kind = "StopData" THEN highest_proof(insert_collect(s.collects, m))
    ELSE highest_proof(m.collects)

\* C19: when a view change is finalized and the sequence number of the
\* highest proof is more than one ahead of the last execution of the log (0
\* here), process_message answers RunCst, the FinalizeState is saved, the phase
\* becomes SyncingState and the view is not installed; in every other case
\* the view change is committed: the next view is installed and the phase
\* becomes Init.
C19_RunCstOrCommit ==
    \A m \in ViewChangeMessages :
        Finalizing(sync, m) =>
            \A p \in pending_batches(sync, m), snd \in sound_answers(sync, m) :
                LET r == sync_process_message(sync, m, p, snd)
                    proof == FinalizingProof(sync, m)
                IN
                IF proof.seq > 0 + 1
                THEN /\ r.status = "RunCst"
                     /\ r.s.phase.tag = "SyncingState"
                     /\ r.s.finalize_state # NoFinalizeState
                     /\ r.s.finalize_state.last_proof = proof
                     /\ r.s.tbo.view = sync.tbo.view
                ELSE /\ r.status = "NewView"
                     /\ r.s.phase.tag = "Init"
                     /\ r.s.tbo.view = sync.tbo.next_view
                     /\ r.s.finalize_state = sync.finalize_state

(***************************************************************************)
(* C20                                                                     *)
(***************************************************************************)
\* C20: in SyncingState a FinalizeState is saved, and resume_view_change,
\* called once the state transfer is over, finalizes the view change from it:
\* the saved state is taken, the pending next view is installed and the phase
\* becomes Init.
C20_ResumeFinalizesSavedState ==
    sync.phase.tag = "SyncingState" =>
        LET r == resume_view_change(sync, 0) IN
        /\ sync.finalize_state # NoFinalizeState
        /\ r.status = "NewView"
        /\ r.s.finalize_state = NoFinalizeState
        /\ r.s.tbo.view = sync.tbo.next_view
        /\ r.s.phase.tag = "Init"

(***************************************************************************)
(* The views the Synchronizer installs, and the quorum join track.         *)
(***************************************************************************)
\* The memberships a view handed to install_view can have.
Memberships == {Members} \cup {next_view_with_new_node(Members, c) : c \in JoinNamed}

\* C21: every view the Synchronizer installs has a sequence number strictly
\* greater than the one it replaces, that becomes its previous view, and
\* members with n >= 3f + 1; install_view refuses a view that has the sequence
\* number of the current one and leaves the view, the previous view and the
\* STOP, STOP-DATA and SYNC buckets as they are.
C21_InstalledViewsGrow ==
    [][/\ sync'.tbo.view # sync.tbo.view =>
            /\ sync'.tbo.view > sync.tbo.view
            /\ sync'.tbo.previous_view >= sync.tbo.view
            /\ sync'.tbo.previous_view < sync'.tbo.view
            /\ Len(sync'.tbo.members) >= 3 * view_f(sync'.tbo.members) + 1
       /\ \A members \in Memberships :
            /\ ~SyncTbo_install_view_ok(sync.tbo, sync.tbo.view)
            /\ SyncTbo_install_view(sync.tbo, sync.tbo.view, members) = sync.tbo]_vars

\* A view two sequence numbers ahead of the current one was installed.
C21_Witness ==
    /\ sync.tbo.view = 2
    /\ sync.tbo.previous_view = 0

\* The STOP and the STOP-QUORUM-JOIN of the next view.
NextViewOf(kind) == {m \in JoinMessages : m.kind = kind /\ m.seq = SeqNext(sync.tbo.view)}

\* The Synchronizer after it has processed the message m.
AfterMessage(m) == sync_process_message(sync, m, EmptyBatch, Unbound(FALSE)).s

\* C22: the STOP track preempts the quorum join. In ViewStopping and
\* ViewStopping2 a STOP of the next view, or a timeout of the requests, takes
\* the Synchronizer to Stopping or Stopping2; in Stopping and Stopping2 a
\* STOP-QUORUM-JOIN of the next view is ignored; and no step taken while the
\* leader change is pending adds a node or goes back to the join track.
C22_StopPreemptsJoin ==
    [][/\ sync.phase.tag \in {"ViewStopping", "ViewStopping2"} =>
            /\ \A m \in NextViewOf("Stop") :
                    AfterMessage(m).phase.tag \in {"Stopping", "Stopping2"}
            /\ begin_view_change(sync, TRUE).phase.tag = "Stopping2"
            /\ begin_view_change_stops(sync, TRUE) = 1
       /\ sync.phase.tag \in {"Stopping", "Stopping2"} =>
            /\ \A m \in NextViewOf("StopQuorumJoin") : AfterMessage(m) = sync
            /\ sync'.phase.tag \notin {"ViewStopping", "ViewStopping2"}
            /\ sync'.currently_adding_node = NoJoining
            /\ sync'.tbo.next_members \in {<<>>, sync.tbo.members}
            /\ sync'.tbo.members = sync.tbo.members
       /\ sync.phase.tag \in {"StoppingData", "Syncing"}
            /\ sync.currently_adding_node = NoJoining =>
               sync'.tbo.members = sync.tbo.members]_vars

\* The leader change has completed over a quorum join that had collected votes.
C22_Witness ==
    /\ Len(view_changes) = 1
    /\ sync.tbo.view = 1
    /\ sync.tbo.members = Members
    /\ sync.currently_adding # <<>>

\* The senders of the STOP-QUORUM-JOIN of the view seq counted for the candidate node.
JoinSendersSeen(seen, seq, node) == {v.from : v \in {w \in seen : w.seq = seq /\ w.node = node}}

\* C23: a node is added to the quorum only when STOP-QUORUM-JOIN of the next
\* view that name it were counted from a quorum of distinct senders, and the
\* next view installed is then next_view_with_new_node of that candidate.
C23_JoinNeedsQuorumOfSenders ==
    [][sync.currently_adding_node = NoJoining /\ sync'.currently_adding_node # NoJoining =>
          \E node \in JoinNamed :
              /\ sync'.tbo.next_view = SeqNext(sync.tbo.view)
              /\ sync'.tbo.next_members = next_view_with_new_node(sync.tbo.members, node)
              /\ Cardinality(JoinSendersSeen(joins_seen', SeqNext(sync.tbo.view), node))
                     >= view_quorum(sync.tbo.members)]_vars

\* C24: a member that runs no leader change and has not yet broadcast a
\* STOP-QUORUM-JOIN of the next view, handed a join request for a node outside
\* the view, broadcasts STOP-QUORUM-JOIN of that node and enters ViewStopping2,
\* whether it waits in Init or has counted STOP-QUORUM-JOIN of its peers already.
C24_JoinRequestIsBroadcast ==
    \A node \in JoinCandidates :
        /\ sync.phase.tag \in {"Init", "ViewStopping", "ViewStopping2"}
        /\ \A j \in joins_sent : j.seq # SeqNext(sync.tbo.view)
        /\ \A i \in 1..Len(sync.tbo.members) : sync.tbo.members[i] # node
        => /\ start_join_quorum(sync, node).joins = 1
           /\ start_join_quorum(sync, node).s.phase.tag = "ViewStopping2"

\* C25: a replica that has broadcast its STOP and still waits for the quorum
\* of STOP in Stopping2 broadcasts it again when its requests time out.
C25_StopRetransmitted ==
    sync.phase.tag = "Stopping2" /\ stops_sent > 0 =>
        /\ begin_view_change_stops(sync, TRUE) = 1
        /\ begin_view_change(sync, TRUE).phase = sync.phase

(***************************************************************************)
(* The state transfer.                                                     *)
(***************************************************************************)
\* The states seen of one digest, and the number of the replies that carried
\* them.
StatesOf(seen, digest) == {s \in DOMAIN seen : s.digest = digest}
RepliesOf(seen, digest) == SumOver(seen, StatesOf(seen, digest))

\* C26: the checkpoint the state transfer reports as installed is of a digest
\* that more than f ReplyState of the request in progress carried, and of the
\* highest sequence number these carried; and when more than f ReplyState of
\* the request are there and no digest was carried by more than f of them,
\* nothing is installed: the states received are cleared and the request of
\* the state is made again.
C26_StateOfMoreThanF ==
    /\ st_result.tag = "StateTransferFinished" =>
           \E d \in CstDigests :
               /\ RepliesOf(replies_seen, d) > ViewF
               /\ \E s \in StatesOf(replies_seen, d) : s.seq = st_result.seq
               /\ \A s \in StatesOf(replies_seen, d) : s.seq <= st_result.seq
    /\ \A m \in CstMessages :
           LET seen == seen_state(replies_seen, m.state)
               r == StateTransfer_process_message(cst, m)
           IN /\ cst.phase.tag = "ReceivingState"
              /\ counted_reply(cst, m)
              /\ SumOver(seen, DOMAIN seen) > ViewF
              /\ \A d \in CstDigests : RepliesOf(seen, d) <= ViewF
              => /\ r.result.tag = "StateTransferRunning"
                 /\ r.c.phase = CstPhase("ReceivingState", 0)
                 /\ r.c.received_states = <<>>
                 /\ r.c.curr_seq > cst.curr_seq

\* A state was installed that replies of two sequence numbers carried, and
\* replies of two digests are there while the state is waited for.
C26_Witness ==
    /\ st_result.tag = "StateTransferFinished"
    /\ Cardinality(DOMAIN replies_seen) = 2
    /\ st_result.seq = 2

\* C27: in ReceivingCid, with the ReplyStateCid that makes a quorum of replies
\* of the request in progress or comes after it: when the digest reported
\* most was reported by a quorum, the discovery answers its sequence number;
\* when no reply reported a checkpoint, it answers 0; otherwise the request of
\* the sequence number is made again.
C27_DiscoveryAnswersOrAsksAgain ==
    \A m \in CstMessages :
        LET ids == IF m.cid = NoCid THEN cst.received_state_ids
                   ELSE count_state_cid(cst.received_state_ids, m.cid, m.digest)
            r == StateTransfer_process_message(cst, m)
        IN /\ cst.phase.tag = "ReceivingCid"
           /\ counted_reply(cst, m)
           /\ cst.phase.i + 1 >= ViewQuorum
           => CASE DOMAIN ids = {} -> r.agreed = 0
                [] \E d \in DOMAIN ids : ids[d].count >= ViewQuorum ->
                     \E d \in DOMAIN ids : ids[d].count >= ViewQuorum /\ r.agreed = ids[d].cid
                [] OTHER -> /\ r.c.phase = CstPhase("ReceivingCid", 0)
                            /\ r.c.curr_seq > cst.curr_seq
                            /\ r.c.received_state_ids = <<>>

\* C28: the state the state transfer reports as installed is never older than
\* what the replica holds: the sequence number of StateTransferFinished is at
\* least the one of the checkpoint the replica has, and at least the one the
\* discovery of the sequence number has answered.
C28_InstalledStateIsNoOlder ==
    \A m \in CstMessages :
        LET r == StateTransfer_process_message(cst, m) IN
        r.result.tag = "StateTransferFinished" =>
            /\ r.result.seq >= checkpoint_sequence_number(cst.current_checkpoint_state)
            /\ r.result.seq >= agreed_seq

\* A reply of the kind the phase counts whose sequence number is not the one
\* of the request in progress.
StaleReply(c, m) ==
    /\ m.seq # c.curr_seq
    /\ \/ c.phase.tag = "ReceivingCid" /\ m.kind = "ReplyStateCid"
       \/ c.phase.tag = "ReceivingState" /\ m.kind = "ReplyState"

\* C29: a reply whose sequence number is not curr_seq is dropped: the status
\* is Running and the phase with its count of replies, received_state_ids and
\* received_states, are as before; and curr_seq never decreases and is larger
\* with every request made, so that the replies of an earlier request stay
\* stale.
C29_StaleReplyDropped ==
    /\ [](\A m \in CstMessages :
             StaleReply(cst, m) =>
                 /\ cst_process_message(cst, m) = CstStatus("Running", cst)
                 /\ StateTransfer_process_message(cst, m).c = cst
                 /\ StateTransfer_process_message(cst, m).result.tag = "StateTransferRunning")
    /\ [](/\ request_latest_consensus_seq_no(cst).curr_seq > cst.curr_seq
          /\ request_latest_state(cst).curr_seq > cst.curr_seq)
    /\ [][/\ cst'.curr_seq >= cst.curr_seq
          /\ cst'.phase.tag \in {"ReceivingCid", "ReceivingState"}
                 /\ cst'.phase.i = 0 /\ cst'.phase # cst.phase
             => cst'.curr_seq > cst.curr_seq]_vars

\* The state is asked for a second time, after a timeout, and one reply of
\* that request was counted: the replies of the first request are stale.
C29_Witness ==
    /\ cst.phase = CstPhase("ReceivingState", 1)
    /\ backoff = 1
    /\ \E m \in CstMessages : StaleReply(cst, m) /\ m.seq = 2

RECURSIVE Pow2(_)
Pow2(k) == IF k <= 0 THEN 1 ELSE 2 * Pow2(k - 1)

\* C30: a timeout of the request in progress, in ReceivingCid or
\* ReceivingState, makes the request again: curr_seq is larger, the phase is
\* the same with no reply counted, and curr_timeout is doubled; a timeout of
\* another sequence number, or outside the receiving phases, makes no request
\* and leaves the phase, the timeout and the replies received as they are.
\* After k timeouts in a row since replies enough for a phase were there,
\* curr_timeout is base_timeout * 2^k.
C30_TimeoutBacksOff ==
    /\ cst.curr_timeout = base_timeout * Pow2(backoff)
    /\ \A seq \in 0..MaxCstSeq :
           LET r == cst_request_timed_out(cst, seq) IN
           IF seq = cst.curr_seq /\ cst.phase.tag \in {"ReceivingCid", "ReceivingState"}
           THEN /\ r.retry
                /\ r.c.curr_seq > cst.curr_seq
                /\ r.c.phase = CstPhase(cst.phase.tag, 0)
                /\ r.c.curr_timeout = 2 * cst.curr_timeout
                /\ cst.phase.tag = "ReceivingCid" => r.c.received_state_ids = <<>>
                /\ cst.phase.tag = "ReceivingState" => r.c.received_states = <<>>
           ELSE /\ ~r.retry
                /\ r.c.phase = cst.phase
                /\ r.c.curr_timeout = cst.curr_timeout
                /\ r.c.received_state_ids = cst.received_state_ids
                /\ r.c.received_states = cst.received_states

\* The state is asked for again after two timeouts in a row, the timeout
\* being four times the base; a reply was counted since.
C30_Witness ==
    /\ backoff = 2
    /\ cst.curr_timeout = 4 * base_timeout
    /\ cst.phase.i = 1

\* C31: a RequestState that comes while no state transfer is run is answered
\* at once with the checkpoint completed, or the earlier one, if there is one;
\* else it waits in WaitingCheckpoint, and when the checkpoint is finalized the
\* latest request of every requester that waits is answered with it and the
\* phase is Init again.
C31_RequestStateAnswered ==
    /\ \A m \in CstMessages :
           m.kind = "RequestState" /\ cst.phase.tag \in {"Init", "WaitingCheckpoint"} =>
               IF cst.current_checkpoint_state.tag \in {"PartialWithEarlier", "Complete"}
               THEN /\ process_request_state_replies(cst, m)
                           = {StateReply(m.from, m.seq, cst.current_checkpoint_state.earlier)}
                    /\ process_request_state(cst, m) = cst
               ELSE /\ process_request_state_replies(cst, m) = {}
                    /\ process_request_state(cst, m).phase.tag = "WaitingCheckpoint"
                    /\ StateRequest(m.from, m.seq) \in process_request_state(cst, m).waiting
    /\ cst.current_checkpoint_state.tag = "Partial" /\ buffered # {} =>
           /\ handle_state_received_from_app(cst, "S1").phase = CstPhase("Init", 0)
           /\ handle_state_received_from_app_replies(cst, "S1")
                  = {StateReply(r.from, r.seq,
                                RecoveryState(cst.current_checkpoint_state.seq, "S1")) :
                        r \in latest_requests(buffered)}

\* The moves of the tag of the checkpoint state.
CheckpointMoves ==
    {<<"None", "Partial">>, <<"Partial", "Complete">>, <<"Complete", "PartialWithEarlier">>,
     <<"PartialWithEarlier", "Complete">>}

\* C32: the checkpoint state only moves None -> Partial -> Complete ->
\* PartialWithEarlier -> Complete; finalize_checkpoint on a checkpoint that is
\* None or Complete is an error and leaves it as it is; and
\* handle_app_state_requested on a partial checkpoint leaves it as it is and
\* begins no checkpoint.
C32_CheckpointMoves ==
    /\ [](cst.current_checkpoint_state.tag \in {"None", "Complete"} =>
             /\ finalize_checkpoint(cst, "S1").err
             /\ finalize_checkpoint(cst, "S1").c = cst
             /\ handle_state_received_from_app(cst, "S1") = cst)
    /\ [](cst.current_checkpoint_state.tag \in {"Partial", "PartialWithEarlier"} =>
             \A seq \in 1..MaxCid :
                 /\ handle_app_state_requested(cst, seq) = cst
                 /\ handle_app_state_requested_result(cst) = "Nil")
    /\ [][cst'.current_checkpoint_state # cst.current_checkpoint_state =>
              <<cst.current_checkpoint_state.tag, cst'.current_checkpoint_state.tag>>
                  \in CheckpointMoves]_vars

\* A second checkpoint was begun after the first was completed, and is
\* partial.
C32_Witness ==
    /\ cst.current_checkpoint_state.tag = "PartialWithEarlier"
    /\ cst.current_checkpoint_state.seq = 2
    /\ cst.current_checkpoint_state.earlier.seq = 1

(***************************************************************************)
(* The STOP-DATA and the SYNC.                                             *)
(***************************************************************************)
\* STOP-DATA of the next view but one that the leader of the next view leads.
LaterStopData ==
    [from : Nodes \ {ViewLeader(CurrentView)}, seq : {CurrentView + 1 + ViewN},
     kind : {"StopData"}, collect : SyncCollects, proposed : {NoDigest}, collects : {<<>>}]

\* The STOP-DATA m is one the new leader counts.
CountedStopData(s, m) ==
    /\ m.kind = "StopData"
    /\ m.seq = s.tbo.next_view
    /\ ViewLeader(s.tbo.next_view) = s.node_id
    /\ m.from \notin DOMAIN s.collects

\* C33: in StoppingData a STOP-DATA is counted only if it is of the next
\* view, this replica leads that view and none of its sender is stored; one
\* that is counted and makes no quorum is stored and the count is one more.
\* Any other message leaves the collects and the count as they are: a STOP, a
\* SYNC and a STOP-DATA of a later view this replica leads are queued, any
\* other STOP-DATA is dropped.
C33_StopDataCounted ==
    \A m \in ViewChangeMessages \cup LaterStopData :
        sync.phase.tag = "StoppingData" =>
            \A p \in pending_batches(sync, m), snd \in sound_answers(sync, m) :
                LET r == sync_process_message(sync, m, p, snd)
                    is_queued == \/ m.kind \in {"Stop", "Sync"}
                                 \/ /\ m.seq > sync.tbo.next_view
                                    /\ ViewLeader(m.seq) = sync.node_id
                IN
                /\ ~CountedStopData(sync, m) =>
                       /\ r.status = "Running"
                       /\ r.s.collects = sync.collects
                       /\ r.s.phase = sync.phase
                       /\ IF is_queued
                          THEN /\ SyncQueued(r.s) = SyncQueued(sync) + 1
                               /\ [r.s EXCEPT !.tbo = sync.tbo] = sync
                               /\ m.kind = "Stop" =>
                                      SumLen(r.s.tbo.stop) = SumLen(sync.tbo.stop) + 1
                               /\ m.kind = "Sync" =>
                                      SumLen(r.s.tbo.sync) = SumLen(sync.tbo.sync) + 1
                               /\ m.kind = "StopData" =>
                                      SumLen(r.s.tbo.stop_data) = SumLen(sync.tbo.stop_data) + 1
                          ELSE r.s = sync
                /\ CountedStopData(sync, m) /\ sync.phase.i + 1 < ViewQuorum =>
                       /\ r.status = "Running"
                       /\ DOMAIN r.s.collects = DOMAIN sync.collects \cup {m.from}
                       /\ r.s.collects[m.from] = m.collect
                       /\ \A n \in DOMAIN sync.collects : r.s.collects[n] = sync.collects[n]
                       /\ r.s.phase = SyncPhase("StoppingData", sync.phase.i + 1)

\* The new leader has stored STOP-DATA and a message is queued.
C33_Witness ==
    /\ sync.phase.tag = "StoppingData"
    /\ sync.phase.i >= 1
    /\ sync.collects # <<>>
    /\ SyncQueued(sync) >= 1

\* The SYNC m is of the next view and of its leader.
LeaderSync(s, m) ==
    /\ m.kind = "Sync"
    /\ m.seq = s.tbo.next_view
    /\ m.from = ViewLeader(s.tbo.next_view)

\* C34: in Syncing only a SYNC of the next view sent by the leader of that
\* view finalizes the view change, hands it to the state transfer or changes
\* the phase; a SYNC of the next view of any other sender changes nothing, and
\* a SYNC of a later view is queued and changes nothing else.
C34_OnlyLeaderSync ==
    \A m \in ViewChangeMessages :
        sync.phase.tag = "Syncing" =>
            \A p \in pending_batches(sync, m), snd \in sound_answers(sync, m) :
                LET r == sync_process_message(sync, m, p, snd) IN
                /\ ~LeaderSync(sync, m) =>
                       /\ r.status = "Running"
                       /\ r.final = NoFinal
                       /\ [r.s EXCEPT !.tbo = sync.tbo] = sync
                       /\ r.s.tbo.view = sync.tbo.view
                       /\ r.s.tbo.next_view = sync.tbo.next_view
                /\ m.kind = "Sync" /\ m.seq = sync.tbo.next_view
                       /\ m.from # ViewLeader(sync.tbo.next_view) => r.s = sync
                /\ m.kind = "Sync" /\ m.seq > sync.tbo.next_view =>
                       /\ SumLen(r.s.tbo.sync) = SumLen(sync.tbo.sync) + 1
                       /\ [r.s.tbo EXCEPT !.sync = sync.tbo.sync] = sync.tbo

\* A replica that does not lead view 1 has installed it: it has finalized the
\* view change on the SYNC of the leader.
C34_Witness ==
    /\ sync.node_id # ViewLeader(1)
    /\ sync.tbo.view = 1
    /\ sync.phase.tag = "Init"
    /\ Len(view_changes) = 1

(***************************************************************************)
(* The end of the view change.                                             *)
(***************************************************************************)

\* The calls a replica of state s may make next: process_message on a message
\* of the network or on the message poll hands back, and resume_view_change
\* once the state transfer is over.
FinalizeCalls(s) ==
    LET polled == sync_poll(s) IN
    UNION {{[before |-> s, r |-> sync_process_message(s, m, EmptyBatch, snd)] :
               snd \in sound_answers(s, m)} : m \in JoinMessages}
    \cup
    IF polled.status = "NextMessage"
    THEN {[before |-> polled.s,
           r |-> sync_process_message(polled.s, polled.m, EmptyBatch, snd)] :
             snd \in sound_answers(polled.s, polled.m)}
    ELSE IF polled.status = "ResumeViewChange"
    THEN {[before |-> s, r |-> resume_view_change(s, last_execution)] :
             last_execution \in 0..MaxProofSeq}
    ELSE {}

\* C35: a call that runs finalize installs the pending next view and its
\* members and leaves no view pending, hands the proposal of the FinalizeState
\* over for its curr_cid, leaves the phase Init and no node being added, and
\* answers NewViewJoinedQuorum exactly when a node was being added, NewView
\* otherwise.
C35_FinalizeInstallsNextView ==
    \A c \in FinalizeCalls(sync) :
        c.r.final # NoFinal =>
            /\ c.before.tbo.next_view # NoView
            /\ c.r.s.tbo.view = c.before.tbo.next_view
            /\ c.r.s.tbo.members = c.before.tbo.next_members
            /\ c.r.s.tbo.next_view = NoView
            /\ c.r.final.view = c.before.tbo.next_view
            /\ c.r.final.proposed # NoDigest
            /\ c.r.final.curr_cid >= 0
            /\ c.r.s.phase = SyncPhase("Init", 0)
            /\ c.r.s.currently_adding_node = NoJoining
            /\ c.r.status \in {"NewView", "NewViewJoinedQuorum"}
            /\ c.r.status = "NewViewJoinedQuorum" <=> c.before.currently_adding_node # NoJoining

\* A replica that is adding a node is about to finalize the view change.
C35_Witness ==
    /\ sync.currently_adding_node # NoJoining
    /\ \E c \in FinalizeCalls(sync) : c.r.final # NoFinal

(***************************************************************************)
(* The senders of the replies of a state transfer.                         *)
(***************************************************************************)

\* The state transfer after the message m was delivered to it k times.
RECURSIVE cst_redelivered(_, _, _)
cst_redelivered(c, m, k) ==
    IF k <= 0 THEN c
    ELSE cst_redelivered(StateTransfer_process_message(c, m).c, m, k - 1)

\* C36: the replies of one peer alone do not reach a threshold: when a request
\* has no reply yet, the same ReplyState delivered f + 1 times installs no
\* state, and the same ReplyStateCid delivered a quorum of times makes the
\* discovery answer no sequence number.
C36_OnePeerOneCount ==
    \A m \in CstMessages :
        /\ cst.phase = CstPhase("ReceivingState", 0) /\ counted_reply(cst, m) =>
               StateTransfer_process_message(cst_redelivered(cst, m, ViewF), m).result.tag
                   # "StateTransferFinished"
        /\ cst.phase = CstPhase("ReceivingCid", 0) /\ counted_reply(cst, m) =>
               StateTransfer_process_message(cst_redelivered(cst, m, ViewQuorum - 1), m).agreed
                   = -1

(***************************************************************************)
(* The collects that certify a value.                                      *)
(***************************************************************************)

\* The normalized collects whose write-set holds value with a timestamp of ts
\* or later.
Certifiers(ts, value, nc) ==
    {n \in SomeCollects(nc) :
        \E i \in 1..Len(nc[n].write_set) :
            nc[n].write_set[i].ts >= ts /\ nc[n].write_set[i].value = value}

\* C37: certified_value(ts, value) holds only if more than f collects hold
\* value in their write-set with a timestamp of ts or later, for the
\* normalized collects binds was applied to.
C37_CertifiedByMoreThanF ==
    answered.op = "binds" =>
        \A pr \in SndPairs :
            certified_value(pr.ts, pr.value, answered.normalized) =>
                Cardinality(Certifiers(pr.ts, pr.value, answered.normalized)) > ViewF

(***************************************************************************)
(* The SYNC of the new leader.                                             *)
(***************************************************************************)

\* The STOP-DATA of the next view the leader of the current view sends.
FurtherStopData ==
    [from : {ViewLeader(CurrentView)}, seq : {CurrentView + 1}, kind : {"StopData"},
     collect : SyncCollects, proposed : {NoDigest}, collects : {<<>>}]

\* The calls of process_message on the message m in the state s.
SyncCallsOn(s, m) ==
    {sync_process_message(s, m, x[1], x[2]) :
        x \in pending_batches(s, m) \X sound_answers(s, m)}

\* C38: a call that has broadcast the SYNC of a view is followed by no call
\* that broadcasts a SYNC of that view again, whichever message comes next.
C38_OneSyncPerView ==
    \A m \in ViewChangeMessages :
        \A r \in SyncCallsOn(sync, m) :
            r.sync # NoSync =>
                \A n \in ViewChangeMessages \cup FurtherStopData :
                    \A q \in SyncCallsOn(r.s, n) :
                        q.sync = NoSync \/ q.sync.seq # r.sync.seq

(***************************************************************************)
(* The computation of the new leader, repeated by the other replicas.      *)
(***************************************************************************)

\* C39: from the collects the new leader has computed on, a replica in Syncing
\* computes the highest proof, the curr_cid and an answer of sound that the
\* new leader computes.
C39_SyncingRepeatsLeader ==
    answered.op = "syncing" =>
        /\ answered.proof = highest_proof(collected)
        /\ answered.curr_cid = curr_cid_of(highest_proof(collected))
        /\ answered.sound \in sound(SndNormalized)

(***************************************************************************)
(* The votes for a node that joins.                                        *)
(***************************************************************************)

\* C40: in ViewStopping and ViewStopping2 process_message answers a status on
\* every STOP-QUORUM-JOIN, whatever the votes counted before.
C40_JoinVotesAnswered ==
    \A m \in JoinMessages :
        sync.phase.tag \in {"ViewStopping", "ViewStopping2"} /\ m.kind = "StopQuorumJoin" =>
            \A snd \in sound_answers(sync, m) :
                sync_process_message(sync, m, EmptyBatch, snd).status # "Panic"

====
